---- MODULE Spec2Model ----
(***************************************************************************)
(* A model of the blockchain package: the wallet table, the pending       *)
(* transaction file, the BLOCKCHAIN and TRANSACTIONS tables, and the       *)
(* operations generate_wallet, submit_transaction and mine.                *)
(*                                                                         *)
(* Spec      : the operations run one at a time (one action per call).     *)
(* LiveSpec  : the calls one at a time, mine() being eventually called.    *)
(* AdminSpec : Spec plus the removal of wallet rows (remove_wallet).        *)
(* ReadSpec  : Spec plus the read-only queries of the database module.     *)
(* ConcSpec  : two processes run the operations step by step, a step being *)
(*             one access to the pending file or to the database.          *)
(* CancelSpec: ConcSpec plus a mining run killed before it commits.        *)
(* FaultSpec : the commit of a mining run statement by statement, with     *)
(*             failing statements and a process that can be killed.        *)
(* WalletSpec: the wallet calls (generate, add_wallet, sign, verify).       *)
(* NameSpec  : the calls of the wallet table, made with any name.          *)
(* TamperSpec: Spec plus edits of the pending file from outside and calls  *)
(*             of verify_pending_transactions.                             *)
(* GenerateSpec: two processes run Wallet.generate, a step being one call  *)
(*             of the database module.                                     *)
(* ApiSpec   : the calls of the package made with any receiver and amount, *)
(*             and add_to_blockchain called on a new Mining object.        *)
(***************************************************************************)
EXTENDS Integers, Sequences, FiniteSets, TLC

\* ------------------------------------------------------------------ bounds
Owners    == {"A", "B"}
Passwords == {"pwdA", "pwdB"}      \* offered to submit_transaction
WalletPasswords == {"pwdA"}        \* chosen when a wallet is generated
Transfers == {<<"A", "B", 1>>, <<"B", "A", 2>>}   \* <<sender, receiver, amount>>
MaxKeys    == 2      \* RSA key pairs generated in a run
MaxSubmits == 2      \* successful signatures made in a run
MaxTime    == 1      \* last value of the clock
MaxUuids   == 2      \* block names drawn in a run with failing commits
MaxLeaks   == 1      \* connections left open by calls that raised
Procs     == {1, 2}
\* the names a caller can give: the owners, and two names with apostrophes
Names     == Owners \cup {"O'Brien", "' OR ''='"}

\* --------------------------------------------------------------- constants
MINING_DIFFICULTY == 2
MINING_DIGIT == 0

VARIABLES
    WALLETS,                    \* rows of the WALLETS table
    BLOCKCHAIN,                 \* rows of the BLOCKCHAIN table, by BLOCK_ID
    TRANSACTIONS,               \* rows of the TRANSACTIONS table, by rowid
    PENDING_TRANSACTIONS_FILE,  \* content of pending_transactions.json
    now,                        \* the clock read by utils.get_timestamp
    nextKey,                    \* key pairs generated so far
    nextSalt,                   \* PSS signatures made so far
    nextUuid,                   \* uuid4 values drawn so far
    ret,                        \* what the last call returned to its caller
    LOG,                        \* the last record emitted by the logger
    accepted,                   \* history: signatures whose submit returned True
    committed,                  \* history: <<block, signature>> of every committed entry
    pc,                         \* ConcSpec: position of each process
    local,                      \* ConcSpec: local variables of each process
    connections,                \* sqlite connections that are open (database handles)
    sqlite_master               \* names of the tables in the database file

stores == <<WALLETS, BLOCKCHAIN, TRANSACTIONS, PENDING_TRANSACTIONS_FILE>>
env    == <<now, nextKey, nextSalt, nextUuid>>
procs  == <<pc, local, connections>>
vars   == <<WALLETS, BLOCKCHAIN, TRANSACTIONS, PENDING_TRANSACTIONS_FILE,
            now, nextKey, nextSalt, nextUuid, ret, LOG, accepted, committed,
            pc, local, connections, sqlite_master>>

\* ------------------------------------------------------------------ values
None   == [tag |-> "None"]
NoFile == [tag |-> "NoFile"]
Bool(b) == [tag |-> "bool", value |-> b]

\* what a call handed back to its caller
Returned(call, value) == [call |-> call, value |-> value]

\* an exception that left the call
Raised(exception) == [raised |-> exception]

RECURSIVE SumAmount(_)
SumAmount(s) == IF s = <<>> THEN 0 ELSE Head(s).amount + SumAmount(Tail(s))

\* ------------------------------------------------------------------- utils
get_timestamp == now

hexdigest(message) == [sha256 |-> message]

\* ---------------------------------------------------------------- database
TABLE_WALLETS      == "WALLETS"
TABLE_BLOCKCHAIN   == "BLOCKCHAIN"
TABLE_TRANSACTIONS == "TRANSACTIONS"

\* CREATE TABLE IF NOT EXISTS.  The first table with an AUTOINCREMENT key
\* makes sqlite add its own table sqlite_sequence to the database.
create_table(master, table, autoincrement) ==
    IF \E i \in 1..Len(master) : master[i] = table THEN master
    ELSE IF autoincrement /\ \A i \in 1..Len(master) : master[i] # "sqlite_sequence"
    THEN master \o <<table, "sqlite_sequence">>
    ELSE Append(master, table)

create_wallets_table(master) == create_table(master, TABLE_WALLETS, FALSE)

create_transactions_table(master) == create_table(master, TABLE_TRANSACTIONS, FALSE)

create_blockchain_table(master) == create_table(master, TABLE_BLOCKCHAIN, TRUE)

\* BlockChainDB.__init__: every table is created when it is not there yet
BlockChainDB(master) ==
    create_blockchain_table(create_transactions_table(create_wallets_table(master)))

\* sqlite3.connect makes the database file when there is none
open_database(file) == BlockChainDB(IF file = NoFile THEN <<>> ELSE file)

\* mutant: the NAME column is no primary key
add_wallet_no_primary_key(table, name, pubkey, pvtkey) ==
    [raised |-> "",
     table  |-> table \cup {[NAME |-> name, PUBLIC_KEY |-> pubkey,
                             PRIVATE_KEY |-> pvtkey]}]

\* NAME is the PRIMARY KEY of the table: a second row of a name is refused
add_wallet(table, name, pubkey, pvtkey) ==
    IF \E r \in table : r.NAME = name
    THEN [raised |-> "IntegrityError", table |-> table]
    ELSE [raised |-> "",
          table  |-> table \cup {[NAME |-> name, PUBLIC_KEY |-> pubkey,
                                  PRIVATE_KEY |-> pvtkey]}]

\* WHERE NAME = '%s': the name is put into the text of the command by the %
\* operator, so an apostrophe in the name ends the SQL string early.
\*   O'Brien    gives  WHERE NAME = 'O'Brien'    which does not parse
\*   ' OR ''='  gives  WHERE NAME = '' OR ''=''  which is true of every row
where_name(table, name) ==
    IF name = "O'Brien"
    THEN [raised |-> "OperationalError", rows |-> {}]
    ELSE IF name = "' OR ''='"
    THEN [raised |-> "", rows |-> table]
    ELSE [raised |-> "", rows |-> {r \in table : r.NAME = name}]

\* fetchone(): a row of the selection (the statement fixes no order), or None
get_wallet(table, name) ==
    LET selected == where_name(table, name)
    IN  IF selected.raised # "" THEN Raised(selected.raised)
        ELSE IF selected.rows = {} THEN None
        ELSE CHOOSE r \in selected.rows : TRUE

get_users(table) == {r.NAME : r \in table}

get_wallet_holders == get_users(WALLETS)

\* mutant: every name is taken for a new one
is_unique_name_always(name) == TRUE

is_unique_name(name) == name \notin get_wallet_holders

remove_wallet(table, name) ==
    LET selected == where_name(table, name)
    IN  [raised |-> selected.raised, table |-> table \ selected.rows]


BlockChainDB_add_transaction(rows, block, transaction) ==
    Append(rows, [BLOCK          |-> block,
                  SENDER         |-> transaction.sender,
                  RECEIVER       |-> transaction.receiver,
                  AMOUNT         |-> transaction.amount,
                  SUBMITTED_TIME |-> transaction.submitted_time,
                  VERIFIED_TIME  |-> transaction.verified_time])

RECURSIVE add_transactions(_, _, _)
add_transactions(rows, block, transactions) ==
    IF transactions = <<>> THEN rows
    ELSE add_transactions(BlockChainDB_add_transaction(rows, block, Head(transactions)),
                          block, Tail(transactions))

\* BLOCK_ID is an AUTOINCREMENT key: one more than the greatest id ever used.
next_block_id(blocks) == Len(blocks) + 1

\* mutant: the new block row replaces the rows already in the table
BlockChainDB_add_block_replace(blocks, rows, block_name, transactions, timestamp, hash_value) ==
    [TRANSACTIONS |-> add_transactions(rows, block_name, transactions),
     BLOCKCHAIN   |-> <<[BLOCK_ID    |-> next_block_id(blocks),
                         BLOCK       |-> block_name,
                         TRANS_COUNT |-> Len(transactions),
                         AMOUNT      |-> SumAmount(transactions),
                         TIMESTAMP   |-> timestamp,
                         BLOCK_HASH  |-> hash_value]>>]

BlockChainDB_add_block(blocks, rows, block_name, transactions, timestamp, hash_value) ==
    [TRANSACTIONS |-> add_transactions(rows, block_name, transactions),
     BLOCKCHAIN   |-> Append(blocks, [BLOCK_ID    |-> next_block_id(blocks),
                                      BLOCK       |-> block_name,
                                      TRANS_COUNT |-> Len(transactions),
                                      AMOUNT      |-> SumAmount(transactions),
                                      TIMESTAMP   |-> timestamp,
                                      BLOCK_HASH  |-> hash_value])]

BlockChainDB_get_block(block_name) ==
    IF \E i \in 1..Len(BLOCKCHAIN) : BLOCKCHAIN[i].BLOCK = block_name
    THEN BLOCKCHAIN[CHOOSE i \in 1..Len(BLOCKCHAIN) :
                       /\ BLOCKCHAIN[i].BLOCK = block_name
                       /\ \A j \in 1..(i-1) : BLOCKCHAIN[j].BLOCK # block_name]
    ELSE None

BlockChainDB_get_blocks == BLOCKCHAIN

\* mutant: the WHERE clause is left out
BlockChainDB_get_transactions_all(block_name) == TRANSACTIONS

BlockChainDB_get_transactions(block_name) ==
    SelectSeq(TRANSACTIONS, LAMBDA r : r.BLOCK = block_name)

\* mutant: the row with the least block id is selected
BlockChainDB_get_last_block_first(blocks) ==
    IF blocks = <<>> THEN None
    ELSE blocks[CHOOSE i \in 1..Len(blocks) :
                   \A j \in 1..Len(blocks) : blocks[i].BLOCK_ID <= blocks[j].BLOCK_ID]

BlockChainDB_get_last_block(blocks) ==
    IF blocks = <<>> THEN None
    ELSE blocks[CHOOSE i \in 1..Len(blocks) :
                   \A j \in 1..Len(blocks) : blocks[j].BLOCK_ID <= blocks[i].BLOCK_ID]

\* fetchone() of a one-column SELECT: a 1-tuple, or None when there is no row
BlockChainDB_get_last_block_hash(blocks) ==
    IF blocks = <<>> THEN None
    ELSE [tag |-> "row", cols |-> <<BlockChainDB_get_last_block(blocks).BLOCK_HASH>>]

get_last_block_hash == BlockChainDB_get_last_block_hash(BLOCKCHAIN)

to_json(t) == [_BaseTransaction__sender              |-> t.sender,
               _BaseTransaction__receiver            |-> t.receiver,
               _BaseTransaction__amount              |-> t.amount,
               _VerifiedTransaction__submitted_time  |-> t.submitted_time,
               _VerifiedTransaction__verified_time   |-> t.verified_time]

str_transactions(transactions) ==
    [i \in 1..Len(transactions) |-> to_json(transactions[i])]

\* mutant: the hash of the previous block is hashed with the new block
hash_value_chained(block_name, transactions, timestamp) ==
    LET hash_dict == [name         |-> block_name,
                      transactions |-> str_transactions(transactions),
                      timestamp    |-> timestamp,
                      previous     |-> get_last_block_hash]
    IN  hexdigest(hash_dict)

\* database.add_block: the hash is a digest of name, transactions and timestamp
hash_value(block_name, transactions, timestamp) ==
    LET hash_dict == [name         |-> block_name,
                      transactions |-> str_transactions(transactions),
                      timestamp    |-> timestamp]
    IN  hexdigest(hash_dict)

\* mutant: the block is written without the transactions that were collected
add_block_without_transactions(blocks, rows, block_name, transactions, timestamp) ==
    BlockChainDB_add_block(blocks, rows, block_name, <<>>, timestamp,
                           hash_value(block_name, <<>>, timestamp))

add_block(blocks, rows, block_name, transactions, timestamp) ==
    BlockChainDB_add_block(blocks, rows, block_name, transactions, timestamp,
                           hash_value(block_name, transactions, timestamp))

\* ------------------------------------------------------------------ wallet
\* __init__ loads the public key with get_wallet(owner), which can raise
Wallet(table, owner, encrypted_private_key) ==
    LET db_entry == get_wallet(table, owner)
    IN  IF "raised" \in DOMAIN db_entry THEN db_entry
        ELSE [owner                 |-> owner,
              encrypted_private_key |-> encrypted_private_key,
              public_key            |-> IF db_entry = None THEN None
                                        ELSE db_entry.PUBLIC_KEY]

Wallet_load_from_database(table, owner) ==
    LET db_entry == get_wallet(table, owner)
    IN  IF "raised" \in DOMAIN db_entry THEN db_entry
        ELSE IF db_entry = None THEN None
        ELSE Wallet(table, db_entry.NAME, db_entry.PRIVATE_KEY)

\* mutant: the password is not checked when the key is loaded
Wallet_decrypt_private_key_any(wallet, password) ==
    [private |-> wallet.encrypted_private_key.private]

\* load_pem_private_key raises ValueError on a wrong password; caught, None returned
Wallet_decrypt_private_key(wallet, password) ==
    IF wallet.encrypted_private_key.password = password
    THEN [private |-> wallet.encrypted_private_key.private]
    ELSE None

b64encode(raw) == [b64 |-> raw]

b64decode(signature) ==
    IF "b64" \in DOMAIN signature THEN signature.b64 ELSE [raised |-> "TypeError"]

\* PSS signing draws a fresh salt at every call
Wallet_sign(wallet, message, password, salt) ==
    LET pvt_key == Wallet_decrypt_private_key(wallet, password)
    IN  IF pvt_key = None THEN None
        ELSE b64encode([key |-> pvt_key.private, message |-> message, salt |-> salt])

Wallet_verify(wallet, message, signature) ==
    LET decoded_signature == b64decode(signature)
    IN  IF "raised" \in DOMAIN decoded_signature THEN "TypeError"
        ELSE IF /\ "key" \in DOMAIN decoded_signature
                /\ decoded_signature.key = wallet.public_key.public
                /\ decoded_signature.message = message
             THEN "True"
             ELSE "False"

\* ------------------------------------------------------------- transaction
message(sender, receiver, amount) ==
    <<sender, " sends ", amount, " dummycoins to ", receiver>>

PendingTransaction_sign(sender, receiver, amount, password, salt) ==
    LET sender_wallet == Wallet_load_from_database(WALLETS, sender)
    IN  IF sender_wallet = None THEN None
        ELSE Wallet_sign(sender_wallet, message(sender, receiver, amount),
                         password, salt)

\* mutant: the wallet is used without the test `if not sender_wallet`
PendingTransaction_verify_unchecked(sender, receiver, amount, signature) ==
    LET sender_wallet == Wallet_load_from_database(WALLETS, sender)
    IN  IF sender_wallet = None THEN "TypeError"
        ELSE Wallet_verify(sender_wallet, message(sender, receiver, amount),
                           signature)

PendingTransaction_verify(sender, receiver, amount, signature) ==
    LET sender_wallet == Wallet_load_from_database(WALLETS, sender)
    IN  IF sender_wallet = None THEN "None"
        ELSE Wallet_verify(sender_wallet, message(sender, receiver, amount),
                           signature)

verify_transaction(transaction) ==
    PendingTransaction_verify(transaction.sender, transaction.receiver,
                              transaction.amount, transaction.signature)

json_dump(transactions) == [tag |-> "json", data |-> transactions]

json_load(file) == file.data

read_pending(file) == IF file = NoFile THEN <<>> ELSE json_load(file)

get_pending_transactions == read_pending(PENDING_TRANSACTIONS_FILE)

\* mutant: the time of submission is stored as the time of verification
VerifiedTransaction_submitted_twice(t, verified_time) ==
    [sender         |-> t.sender,
     receiver       |-> t.receiver,
     amount         |-> t.amount,
     submitted_time |-> t.submitted_time,
     verified_time  |-> t.submitted_time]

VerifiedTransaction(t, verified_time) ==
    [sender         |-> t.sender,
     receiver       |-> t.receiver,
     amount         |-> t.amount,
     submitted_time |-> t.submitted_time,
     verified_time  |-> verified_time]

\* mutant: the scan stops at the first entry that verifies
verifiable_first(pending) ==
    LET ok == SelectSeq(pending, LAMBDA t : verify_transaction(t) = "True")
    IN  IF ok = <<>> THEN ok ELSE <<Head(ok)>>

\* mutant: the filter keeps no entry
verifiable_none(pending) == SelectSeq(pending, LAMBDA t : FALSE)

verifiable(pending) == SelectSeq(pending, LAMBDA t : verify_transaction(t) = "True")

\* an entry whose signature text cannot be decoded makes Wallet.verify raise;
\* the list comprehension has no handler, so the whole call raises
verify_raises(pending) ==
    \E i \in 1..Len(pending) : verify_transaction(pending[i]) = "TypeError"

\* the entries the comprehension went through before the one that raised
before_raise(pending) ==
    LET first == CHOOSE i \in 1..Len(pending) :
                    /\ verify_transaction(pending[i]) = "TypeError"
                    /\ \A j \in 1..(i - 1) :
                          verify_transaction(pending[j]) # "TypeError"
    IN  SubSeq(pending, 1, first - 1)

verify_pending_transactions ==
    LET ok == verifiable(get_pending_transactions)
    IN  [i \in 1..Len(ok) |-> VerifiedTransaction(ok[i], get_timestamp)]

\* mutant: only the entries that verified are taken out of the file
clear_transactions_verified_only ==
    json_dump(SelectSeq(get_pending_transactions,
                        LAMBDA t : verify_transaction(t) # "True"))

\* mutant: the file is left as it is
clear_transactions_noop == PENDING_TRANSACTIONS_FILE

clear_transactions == json_dump(<<>>)


\* ------------------------------------------------------------------ mining
MINING_PREFIX == [i \in 1..MINING_DIFFICULTY |-> MINING_DIGIT]

\* mutant: the seed always ends with the constant of the empty ledger
str_last_block_hash_genesis(last_block_hash) == [genesis |-> "00"]

\* str(last_block_hash): the constant "00", or the text of the row
str_last_block_hash(last_block_hash) ==
    IF last_block_hash = None THEN [genesis |-> "00"]
    ELSE [tuple |-> last_block_hash.cols]

\* The leading characters of a SHA-256 digest cannot be computed here; the
\* digest of a guess is given leading characters that depend on the message
\* and on the nonce, so that the first matching nonce differs between seeds.
Weight(guess) ==
    Len(guess.message.transactions)
      + (IF "genesis" \in DOMAIN guess.message.last THEN 0 ELSE 1)
      + guess.nonce

hexchars(digest, n) == [i \in 1..n |-> (Weight(digest.sha256) \div (2^(i-1))) % 2]

\* mutant: only the first character of the digest is compared
found_match_first_char(msg, nonce) ==
    LET guess      == [message |-> msg, nonce |-> nonce]
        guess_hash == hexdigest(guess)
    IN  hexchars(guess_hash, 1) = <<MINING_DIGIT>>

found_match(msg, nonce) ==
    LET guess      == [message |-> msg, nonce |-> nonce]
        guess_hash == hexdigest(guess)
    IN  hexchars(guess_hash, MINING_DIFFICULTY) = MINING_PREFIX

RECURSIVE search_nonce(_, _)
search_nonce(msg, nonce) ==
    IF found_match(msg, nonce) THEN nonce ELSE search_nonce(msg, nonce + 1)

\* message = str(self.__transactions) + str(last_block_hash)
proof_of_work_message(transactions, last_block_hash) ==
    [transactions |-> str_transactions(transactions),
     last         |-> str_last_block_hash(last_block_hash)]

proof_of_work(transactions, last_block_hash) ==
    search_nonce(proof_of_work_message(transactions, last_block_hash), 0)

\* mutant: the block name is not fresh
uuid4_fixed(n) == [uuid |-> 0]

uuid4(n) == [uuid |-> n]

\* mutant: the empty verified set is not detected
nothing_to_mine_never(transactions) == FALSE

\* `if not self.__transactions` in Mining.mine
nothing_to_mine(transactions) == transactions = <<>>

\* signatures of the pending entries that verify (history of what a run collected)
verified_signatures(pending) ==
    LET ok == verifiable(pending) IN [i \in 1..Len(ok) |-> ok[i].signature]

commit_history(name, signatures) ==
    [i \in 1..Len(signatures) |-> [block |-> name, signature |-> signatures[i]]]

\* ----------------------------------------------------------- log records
LOG_EXISTING   == "INFO: Found an existing wallet with this name. So returning it."
LOG_NOWALLET   == "ERROR: Wallet not found. Please generate one."
LOG_BADPWD     == "ERROR: Failed to decrypt the private key. Please check the password."
LOG_SUBMITTED  == "INFO: Transaction is successful."
LOG_VERIFIED   == "INFO: Verification successful!"
LOG_INVALID    == "ERROR: Verification failed. Invalid Signature."
LOG_NOTHING    == "WARNING: No transactions found to add to the blockchain."

\* the record the logger holds after verify_transaction ran on every entry
log_after_verify(pending, before) ==
    IF pending = <<>> THEN before
    ELSE LET r == verify_transaction(pending[Len(pending)])
         IN  IF r = "True" THEN LOG_VERIFIED
             ELSE IF r = "False" THEN LOG_INVALID
             ELSE LOG_NOWALLET

\* ---------------------------------------------------------------- Init
Init ==
    /\ WALLETS = {}
    /\ BLOCKCHAIN = <<>>
    /\ TRANSACTIONS = <<>>
    /\ PENDING_TRANSACTIONS_FILE = NoFile
    /\ now = 0
    /\ nextKey = 0
    /\ nextSalt = 0
    /\ nextUuid = 0
    /\ ret = Returned("", None)
    /\ LOG = ""
    /\ accepted = {}
    /\ committed = <<>>
    /\ pc = [p \in Procs |-> "idle"]
    /\ local = [p \in Procs |-> None]
    /\ connections = <<>>
    /\ sqlite_master = NoFile

\* ------------------------------------------------------------ connections
\* the process that makes the calls which are not split into steps
Caller == CHOOSE p \in Procs : \A q \in Procs : p <= q

sqlite3_connect(p) ==
    [by |-> p, leaked |-> FALSE, TRANSACTIONS |-> <<>>, BLOCKCHAIN |-> <<>>]

\* the with block of a helper whose statement raised: commit and close are
\* skipped, the connection stays open until it is collected
leak(p) == Append(connections, [sqlite3_connect(p) EXCEPT !.leaked = TRUE])

\* ------------------------------------------- operations, one call at a time
generate_wallet(name, password) ==
    /\ IF ~is_unique_name(name)
       THEN /\ LOG' = LOG_EXISTING
            /\ ret' = Returned("generate_wallet", Wallet_load_from_database(WALLETS, name))
            /\ UNCHANGED <<WALLETS, nextKey>>
       ELSE /\ nextKey < MaxKeys
            /\ LET encrypted_private_key == [private |-> nextKey + 1, password |-> password]
                   public_bytes          == [public |-> nextKey + 1]
                   added == add_wallet(WALLETS, name, public_bytes, encrypted_private_key)
               IN  /\ WALLETS' = added.table
                   /\ ret' = Returned("generate_wallet",
                                     IF added.raised # "" THEN Raised(added.raised)
                                     ELSE Wallet(added.table, name,
                                                 encrypted_private_key))
            /\ nextKey' = nextKey + 1
            /\ UNCHANGED LOG
    /\ sqlite_master' = open_database(sqlite_master)
    /\ UNCHANGED <<BLOCKCHAIN, TRANSACTIONS, PENDING_TRANSACTIONS_FILE,
                   now, nextSalt, nextUuid, accepted, committed, procs>>

pending_entry(sender, receiver, amount, signature) ==
    [sender         |-> sender,
     receiver       |-> receiver,
     amount         |-> amount,
     signature      |-> signature,
     submitted_time |-> get_timestamp]

\* mutant: the file is rewritten with the new entry only
submit_append_overwrite(transactions, sender, receiver, amount, signature) ==
    <<pending_entry(sender, receiver, amount, signature)>>

submit_append(transactions, sender, receiver, amount, signature) ==
    Append(transactions, pending_entry(sender, receiver, amount, signature))

submit_transaction(sender, receiver, amount, password) ==
    LET signature == PendingTransaction_sign(sender, receiver, amount, password,
                                             nextSalt + 1)
    IN  /\ IF signature = None
           THEN /\ ret' = Returned("submit_transaction", Bool(FALSE))
                /\ LOG' = IF Wallet_load_from_database(WALLETS, sender) = None
                          THEN LOG_NOWALLET ELSE LOG_BADPWD
                /\ UNCHANGED <<PENDING_TRANSACTIONS_FILE, nextSalt, accepted>>
           ELSE /\ nextSalt < MaxSubmits
                /\ PENDING_TRANSACTIONS_FILE' =
                       json_dump(submit_append(get_pending_transactions, sender,
                                               receiver, amount, signature))
                /\ nextSalt' = nextSalt + 1
                /\ accepted' = accepted \cup {signature}
                /\ LOG' = LOG_SUBMITTED
                /\ ret' = Returned("submit_transaction", Bool(TRUE))
        /\ sqlite_master' = open_database(sqlite_master)
        /\ UNCHANGED <<WALLETS, BLOCKCHAIN, TRANSACTIONS, now, nextKey, nextUuid,
                       committed, procs>>

mine ==
    LET transactions == verify_pending_transactions
        signatures   == verified_signatures(get_pending_transactions)
    IN  /\ IF verify_raises(get_pending_transactions)
           THEN /\ LOG' = log_after_verify(before_raise(get_pending_transactions), LOG)
                /\ ret' = Returned("mine", Raised("TypeError"))
                /\ UNCHANGED <<BLOCKCHAIN, TRANSACTIONS, PENDING_TRANSACTIONS_FILE,
                               now, nextUuid, committed>>
           ELSE /\ LOG' = IF nothing_to_mine(transactions) THEN LOG_NOTHING
                          ELSE log_after_verify(get_pending_transactions, LOG)
                /\ ret' = Returned("mine", None)
                /\ IF nothing_to_mine(transactions)
                   THEN UNCHANGED <<BLOCKCHAIN, TRANSACTIONS,
                                    PENDING_TRANSACTIONS_FILE, now, nextUuid,
                                    committed>>
                   ELSE \E timestamp \in now..MaxTime :
                          LET nonce == proof_of_work(transactions, get_last_block_hash)
                              name  == uuid4(nextUuid + 1)
                              added == add_block(BLOCKCHAIN, TRANSACTIONS, name,
                                                 transactions, timestamp)
                          IN  /\ nonce \in Nat
                              /\ now' = timestamp
                              /\ nextUuid' = nextUuid + 1
                              /\ BLOCKCHAIN' = added.BLOCKCHAIN
                              /\ TRANSACTIONS' = added.TRANSACTIONS
                              /\ committed' = committed
                                                \o commit_history(name, signatures)
                              /\ PENDING_TRANSACTIONS_FILE' = clear_transactions
        /\ sqlite_master' = IF get_pending_transactions = <<>> THEN sqlite_master
                           ELSE open_database(sqlite_master)
        /\ UNCHANGED <<WALLETS, nextKey, nextSalt, accepted, procs>>

\* administrative removal of a wallet row (BlockChainDB.remove_wallet)
RemoveWallet(name) ==
    LET removed == remove_wallet(WALLETS, name)
    IN  /\ ~is_unique_name(name)
        /\ WALLETS' = removed.table
        /\ IF removed.raised # ""
           THEN /\ Len(connections) < MaxLeaks
                /\ connections' = leak(Caller)
                /\ ret' = Returned("remove_wallet", Raised(removed.raised))
           ELSE /\ ret' = Returned("remove_wallet", None)
                /\ UNCHANGED connections
        /\ sqlite_master' = open_database(sqlite_master)
        /\ UNCHANGED <<BLOCKCHAIN, TRANSACTIONS, PENDING_TRANSACTIONS_FILE, env,
                       LOG, accepted, committed, pc, local>>

Tick ==
    /\ now < MaxTime
    /\ now' = now + 1
    /\ UNCHANGED sqlite_master
    /\ UNCHANGED <<stores, nextKey, nextSalt, nextUuid, ret, LOG, accepted,
                   committed, procs>>

Next ==
    \/ \E name \in Owners, password \in WalletPasswords : generate_wallet(name, password)
    \/ \E t \in Transfers, password \in Passwords :
          submit_transaction(t[1], t[2], t[3], password)
    \/ mine
    \/ Tick

Spec == Init /\ [][Next]_vars

\* the calls one at a time, with mine() called again and again: a mine()
\* that can write a block is not put off forever (the clock is read by the
\* commits only)
LiveNext ==
    \/ \E name \in Owners, password \in WalletPasswords : generate_wallet(name, password)
    \/ \E t \in Transfers, password \in Passwords :
          submit_transaction(t[1], t[2], t[3], password)
    \/ mine

LiveSpec == Init /\ [][LiveNext]_vars /\ WF_vars(mine)

\* the same calls, with the administrative removal of wallets
AdminNext ==
    \/ Next
    \/ \E name \in Owners : RemoveWallet(name)

AdminSpec == Init /\ [][AdminNext]_vars

\* ---------------------------------------------- the read-only projections
Block(row) == [name                |-> row.BLOCK,
               num_of_transactions |-> row.TRANS_COUNT,
               transacted_amount   |-> row.AMOUNT,
               added_time          |-> row.TIMESTAMP,
               hash                |-> row.BLOCK_HASH]

TransactionBlock(row) == [block_name     |-> row.BLOCK,
                          sender         |-> row.SENDER,
                          receiver       |-> row.RECEIVER,
                          amount         |-> row.AMOUNT,
                          submitted_time |-> row.SUBMITTED_TIME,
                          verified_time  |-> row.VERIFIED_TIME]

get_block(block_name) ==
    LET result == BlockChainDB_get_block(block_name)
    IN  IF result = None THEN None ELSE Block(result)

get_blocks ==
    [i \in 1..Len(BlockChainDB_get_blocks) |-> Block(BlockChainDB_get_blocks[i])]

get_transactions(block_name) ==
    LET result == BlockChainDB_get_transactions(block_name)
    IN  [i \in 1..Len(result) |-> TransactionBlock(result[i])]

get_last_block ==
    LET result == BlockChainDB_get_last_block(BLOCKCHAIN)
    IN  IF result = None THEN None ELSE Block(result)

BlockNames == {uuid4(n) : n \in 1..MaxSubmits}

\* mutant: the rows that were read are taken out of the tables
read_and_delete(call, value) ==
    /\ ret' = Returned(call, [result |-> value])
    /\ BLOCKCHAIN' = <<>>
    /\ TRANSACTIONS' = <<>>
    /\ sqlite_master' = open_database(sqlite_master)
    /\ UNCHANGED <<WALLETS, PENDING_TRANSACTIONS_FILE, env, LOG, accepted,
                   committed, procs>>

read(call, value) ==
    /\ ret' = Returned(call, [result |-> value])
    /\ sqlite_master' = open_database(sqlite_master)
    /\ UNCHANGED <<stores, env, LOG, accepted, committed, procs>>

call_get_block == \E name \in BlockNames : read("get_block", get_block(name))

call_get_blocks == read("get_blocks", get_blocks)

call_get_transactions ==
    \E name \in BlockNames : read("get_transactions", get_transactions(name))

call_get_last_block == read("get_last_block", get_last_block)

call_get_last_block_hash == read("get_last_block_hash", get_last_block_hash)

ReadNext ==
    \/ Next
    \/ call_get_block
    \/ call_get_blocks
    \/ call_get_transactions
    \/ call_get_last_block
    \/ call_get_last_block_hash

ReadSpec == Init /\ [][ReadNext]_vars

\* ------------------------------------------------ processes, step by step
\* submit_transaction: sign, read the pending file, write the pending file
submit_sign(p, sender, receiver, amount, password) ==
    LET signature == PendingTransaction_sign(sender, receiver, amount, password,
                                             nextSalt + 1)
    IN  /\ pc[p] = "idle"
        /\ IF signature = None
           THEN /\ ret' = Returned("submit_transaction", Bool(FALSE))
                /\ LOG' = IF Wallet_load_from_database(WALLETS, sender) = None
                          THEN LOG_NOWALLET ELSE LOG_BADPWD
                /\ UNCHANGED <<nextSalt, pc, local>>
           ELSE /\ nextSalt < MaxSubmits
                /\ nextSalt' = nextSalt + 1
                /\ pc' = [pc EXCEPT ![p] = "submit_read"]
                /\ local' = [local EXCEPT ![p] =
                                [sender |-> sender, receiver |-> receiver,
                                 amount |-> amount, signature |-> signature]]
                /\ UNCHANGED <<ret, LOG>>
        /\ sqlite_master' = open_database(sqlite_master)
        /\ UNCHANGED <<connections, stores, now, nextKey, nextUuid, accepted, committed>>

submit_read(p) ==
    /\ pc[p] = "submit_read"
    /\ pc' = [pc EXCEPT ![p] = "submit_write"]
    /\ local' = [local EXCEPT ![p] =
                    [signature    |-> local[p].signature,
                     transactions |-> submit_append(get_pending_transactions,
                                                    local[p].sender,
                                                    local[p].receiver,
                                                    local[p].amount,
                                                    local[p].signature)]]
    /\ UNCHANGED sqlite_master
    /\ UNCHANGED <<connections, stores, env, ret, LOG, accepted, committed>>

submit_write(p) ==
    /\ pc[p] = "submit_write"
    /\ PENDING_TRANSACTIONS_FILE' = json_dump(local[p].transactions)
    /\ accepted' = accepted \cup {local[p].signature}
    /\ LOG' = LOG_SUBMITTED
    /\ ret' = Returned("submit_transaction", Bool(TRUE))
    /\ pc' = [pc EXCEPT ![p] = "idle"]
    /\ local' = [local EXCEPT ![p] = None]
    /\ UNCHANGED sqlite_master
    /\ UNCHANGED <<connections, WALLETS, BLOCKCHAIN, TRANSACTIONS, env, committed>>

\* mutant: the queue is cleared as soon as it was collected
mine_collect_and_clear(p) ==
    LET transactions == verify_pending_transactions
        signatures   == verified_signatures(get_pending_transactions)
    IN  /\ pc[p] = "idle"
        /\ ~verify_raises(get_pending_transactions)
        /\ IF nothing_to_mine(transactions)
           THEN /\ LOG' = LOG_NOTHING
                /\ ret' = Returned("mine", None)
                /\ UNCHANGED <<pc, local, PENDING_TRANSACTIONS_FILE>>
           ELSE /\ LOG' = log_after_verify(get_pending_transactions, LOG)
                /\ pc' = [pc EXCEPT ![p] = "proof_of_work"]
                /\ local' = [local EXCEPT ![p] =
                                [transactions |-> transactions,
                                 signatures   |-> signatures]]
                /\ PENDING_TRANSACTIONS_FILE' = clear_transactions
                /\ UNCHANGED ret
        /\ sqlite_master' = IF get_pending_transactions = <<>> THEN sqlite_master
                           ELSE open_database(sqlite_master)
        /\ UNCHANGED <<connections, WALLETS, BLOCKCHAIN, TRANSACTIONS, env,
                       accepted, committed>>

\* Mining.mine: collect, search the nonce, commit the block, clear the file
mine_collect(p) ==
    LET transactions == verify_pending_transactions
        signatures   == verified_signatures(get_pending_transactions)
    IN  /\ pc[p] = "idle"
        /\ ~verify_raises(get_pending_transactions)
        /\ IF nothing_to_mine(transactions)
           THEN /\ LOG' = LOG_NOTHING
                /\ ret' = Returned("mine", None)
                /\ UNCHANGED <<pc, local>>
           ELSE /\ LOG' = log_after_verify(get_pending_transactions, LOG)
                /\ pc' = [pc EXCEPT ![p] = "proof_of_work"]
                /\ local' = [local EXCEPT ![p] =
                                [transactions |-> transactions,
                                 signatures   |-> signatures]]
                /\ UNCHANGED ret
        /\ sqlite_master' = IF get_pending_transactions = <<>> THEN sqlite_master
                           ELSE open_database(sqlite_master)
        /\ UNCHANGED <<connections, stores, env, accepted, committed>>

mine_proof_of_work(p) ==
    /\ pc[p] = "proof_of_work"
    /\ pc' = [pc EXCEPT ![p] = "add_block"]
    /\ local' = [local EXCEPT ![p] =
                    [transactions    |-> local[p].transactions,
                     signatures      |-> local[p].signatures,
                     last_block_hash |-> get_last_block_hash,
                     message         |-> proof_of_work_message(local[p].transactions,
                                                               get_last_block_hash),
                     nonce           |-> proof_of_work(local[p].transactions,
                                                       get_last_block_hash)]]
    /\ sqlite_master' = open_database(sqlite_master)
    /\ UNCHANGED <<connections, stores, env, ret, LOG, accepted, committed>>

\* mutant: the queue is read again when the block is committed
mine_add_block_recollect(p) ==
    /\ pc[p] = "add_block"
    /\ LET name  == uuid4(nextUuid + 1)
           added == add_block(BLOCKCHAIN, TRANSACTIONS, name,
                              verify_pending_transactions, get_timestamp)
       IN  /\ nextUuid' = nextUuid + 1
           /\ BLOCKCHAIN' = added.BLOCKCHAIN
           /\ TRANSACTIONS' = added.TRANSACTIONS
           /\ committed' = committed
                 \o commit_history(name, verified_signatures(get_pending_transactions))
    /\ pc' = [pc EXCEPT ![p] = "clear_transactions"]
    /\ local' = [local EXCEPT ![p] = [signatures |-> local[p].signatures]]
    /\ sqlite_master' = open_database(sqlite_master)
    /\ UNCHANGED <<connections, WALLETS, PENDING_TRANSACTIONS_FILE, now, nextKey, nextSalt,
                   ret, LOG, accepted>>

mine_add_block(p) ==
    /\ pc[p] = "add_block"
    /\ LET name  == uuid4(nextUuid + 1)
           added == add_block(BLOCKCHAIN, TRANSACTIONS, name,
                              local[p].transactions, get_timestamp)
       IN  /\ nextUuid' = nextUuid + 1
           /\ BLOCKCHAIN' = added.BLOCKCHAIN
           /\ TRANSACTIONS' = added.TRANSACTIONS
           /\ committed' = committed \o commit_history(name, local[p].signatures)
    /\ pc' = [pc EXCEPT ![p] = "clear_transactions"]
    /\ local' = [local EXCEPT ![p] = [signatures |-> local[p].signatures]]
    /\ sqlite_master' = open_database(sqlite_master)
    /\ UNCHANGED <<connections, WALLETS, PENDING_TRANSACTIONS_FILE, now, nextKey, nextSalt,
                   ret, LOG, accepted>>

mine_clear_transactions(p) ==
    /\ pc[p] = "clear_transactions"
    /\ PENDING_TRANSACTIONS_FILE' = clear_transactions
    /\ ret' = Returned("mine", None)
    /\ pc' = [pc EXCEPT ![p] = "idle"]
    /\ local' = [local EXCEPT ![p] = None]
    /\ UNCHANGED sqlite_master
    /\ UNCHANGED <<connections, WALLETS, BLOCKCHAIN, TRANSACTIONS, env, LOG, accepted,
                   committed>>

ConcNext ==
    \/ \E name \in Owners, password \in WalletPasswords : generate_wallet(name, password)
    \/ \E p \in Procs, t \in Transfers, password \in Passwords :
          submit_sign(p, t[1], t[2], t[3], password)
    \/ \E p \in Procs : submit_read(p)
    \/ \E p \in Procs : submit_write(p)
    \/ \E p \in Procs : mine_collect(p)
    \/ \E p \in Procs : mine_proof_of_work(p)
    \/ \E p \in Procs : mine_add_block(p)
    \/ \E p \in Procs : mine_clear_transactions(p)

ConcSpec == Init /\ [][ConcNext]_vars

\* the process is killed while it collects or searches, before add_block:
\* the run ends there, with what it held in memory
cancel(p) ==
    /\ pc[p] \in {"proof_of_work", "add_block"}
    /\ pc' = [pc EXCEPT ![p] = "idle"]
    /\ local' = [local EXCEPT ![p] = None]
    /\ ret' = Returned("mine", [tag |-> "killed"])
    /\ UNCHANGED <<stores, env, LOG, accepted, committed, connections,
                   sqlite_master>>

CancelNext ==
    \/ ConcNext
    \/ \E p \in Procs : cancel(p)

CancelSpec == Init /\ [][CancelNext]_vars


\* ------------------------------- the mining commit, statement by statement
\* database.add_block inside open_database: connect, one INSERT per
\* transaction, the INSERT of the block row, commit, close.  A statement or
\* the commit can fail (sqlite3.OperationalError), and the process can be
\* killed between two statements.
idle == \A q \in Procs : pc[q] = "idle"

\* the connection process p holds
handle(p) ==
    CHOOSE i \in 1..Len(connections) :
        connections[i].by = p /\ ~connections[i].leaked

drop(s, i) == SubSeq(s, 1, i - 1) \o SubSeq(s, i + 1, Len(s))

\* mutant: every INSERT is committed as soon as it is executed
sqlite3_execute_autocommit(table, txn, row) ==
    [table |-> Append(table, row), txn |-> txn]

\* an INSERT opens a transaction implicitly: the row stays with the
\* connection, out of the other connections' sight, until db.commit()
sqlite3_execute(table, txn, row) ==
    [table |-> table, txn |-> Append(txn, row)]

mine_nothing ==
    /\ idle
    /\ nothing_to_mine(verify_pending_transactions)
    /\ mine

add_block_open(p) ==
    LET transactions == verify_pending_transactions
        signatures   == verified_signatures(get_pending_transactions)
        name         == uuid4(nextUuid + 1)
        timestamp    == get_timestamp
    IN  /\ idle
        /\ ~verify_raises(get_pending_transactions)
        /\ ~nothing_to_mine(transactions)
        /\ nextUuid < MaxUuids
        /\ proof_of_work(transactions, get_last_block_hash) \in Nat
        /\ nextUuid' = nextUuid + 1
        /\ LOG' = log_after_verify(get_pending_transactions, LOG)
        /\ connections' = Append(connections, sqlite3_connect(p))
        /\ pc' = [pc EXCEPT ![p] = "add_transaction"]
        /\ local' = [local EXCEPT ![p] =
                        [block_name   |-> name,
                         transactions |-> transactions,
                         todo         |-> transactions,
                         signatures   |-> signatures,
                         timestamp    |-> timestamp,
                         hash_value   |-> hash_value(name, transactions, timestamp)]]
        /\ sqlite_master' = open_database(sqlite_master)
        /\ UNCHANGED <<stores, now, nextKey, nextSalt, ret, accepted, committed>>

add_block_add_transaction(p) ==
    /\ pc[p] = "add_transaction"
    /\ LET i    == handle(p)
           row  == BlockChainDB_add_transaction(<<>>, local[p].block_name,
                                                Head(local[p].todo))[1]
           done == sqlite3_execute(TRANSACTIONS, connections[i].TRANSACTIONS, row)
       IN  /\ TRANSACTIONS' = done.table
           /\ connections' = [connections EXCEPT ![i].TRANSACTIONS = done.txn]
    /\ local' = [local EXCEPT ![p].todo = Tail(@)]
    /\ pc' = [pc EXCEPT ![p] = IF Tail(local[p].todo) = <<>>
                               THEN "add_block" ELSE "add_transaction"]
    /\ UNCHANGED sqlite_master
    /\ UNCHANGED <<WALLETS, BLOCKCHAIN, PENDING_TRANSACTIONS_FILE, env, ret, LOG,
                   accepted, committed>>

add_block_insert_block(p) ==
    /\ pc[p] = "add_block"
    /\ LET i     == handle(p)
           added == BlockChainDB_add_block(BLOCKCHAIN, <<>>, local[p].block_name,
                                           local[p].transactions,
                                           local[p].timestamp,
                                           local[p].hash_value).BLOCKCHAIN
           row   == added[Len(added)]
           done  == sqlite3_execute(BLOCKCHAIN, connections[i].BLOCKCHAIN, row)
       IN  /\ BLOCKCHAIN' = done.table
           /\ connections' = [connections EXCEPT ![i].BLOCKCHAIN = done.txn]
    /\ pc' = [pc EXCEPT ![p] = "commit"]
    /\ UNCHANGED sqlite_master
    /\ UNCHANGED <<WALLETS, TRANSACTIONS, PENDING_TRANSACTIONS_FILE, env, ret, LOG,
                   accepted, committed, local>>

open_database_commit(p) ==
    /\ pc[p] = "commit"
    /\ LET i == handle(p)
       IN  /\ TRANSACTIONS' = TRANSACTIONS \o connections[i].TRANSACTIONS
           /\ BLOCKCHAIN' = BLOCKCHAIN \o connections[i].BLOCKCHAIN
           /\ connections' = [connections EXCEPT ![i] = sqlite3_connect(p)]
    /\ committed' = committed \o commit_history(local[p].block_name,
                                                local[p].signatures)
    /\ pc' = [pc EXCEPT ![p] = "close"]
    /\ UNCHANGED sqlite_master
    /\ UNCHANGED <<WALLETS, PENDING_TRANSACTIONS_FILE, env, ret, LOG, accepted,
                   local>>

open_database_close(p) ==
    /\ pc[p] = "close"
    /\ connections' = drop(connections, handle(p))
    /\ pc' = [pc EXCEPT ![p] = "clear_transactions"]
    /\ UNCHANGED sqlite_master
    /\ UNCHANGED <<stores, env, ret, LOG, accepted, committed, local>>

writing(p) == pc[p] \in {"add_transaction", "add_block", "commit"}

\* mutant: the exception is swallowed and the run goes on to clear the queue
raise_to_caller_swallowed(p) == [pc EXCEPT ![p] = "clear_transactions"]

\* add_to_blockchain and mine have no try block: the call is left at once
raise_to_caller(p) == [pc EXCEPT ![p] = "idle"]

\* a statement or the commit raises: the exception leaves the with block at
\* the yield, so neither db.commit() nor db.close() runs, and leaves mine()
storage_failure(p) ==
    /\ writing(p)
    /\ connections' = [connections EXCEPT ![handle(p)].leaked = TRUE]
    /\ ret' = Returned("mine", Raised("OperationalError"))
    /\ pc' = raise_to_caller(p)
    /\ local' = [local EXCEPT ![p] = None]
    /\ UNCHANGED sqlite_master
    /\ UNCHANGED <<stores, env, LOG, accepted, committed>>

\* the process is killed during the write: its connection goes with it
interrupt(p) ==
    /\ writing(p)
    /\ connections' = drop(connections, handle(p))
    /\ ret' = Returned("mine", [tag |-> "killed"])
    /\ pc' = [pc EXCEPT ![p] = "idle"]
    /\ local' = [local EXCEPT ![p] = None]
    /\ UNCHANGED sqlite_master
    /\ UNCHANGED <<stores, env, LOG, accepted, committed>>

\* a connection nobody refers to is closed when it is collected; what it had
\* not committed is rolled back
garbage_collect ==
    \E i \in 1..Len(connections) :
        /\ connections[i].leaked
        /\ connections' = drop(connections, i)
        /\ UNCHANGED sqlite_master
        /\ UNCHANGED <<stores, env, ret, LOG, accepted, committed, pc, local>>

FaultNext ==
    \/ \E name \in Owners, password \in WalletPasswords :
          idle /\ generate_wallet(name, password)
    \/ \E t \in Transfers, password \in Passwords :
          idle /\ submit_transaction(t[1], t[2], t[3], password)
    \/ mine_nothing
    \/ add_block_open(Caller)
    \/ add_block_add_transaction(Caller)
    \/ add_block_insert_block(Caller)
    \/ open_database_commit(Caller)
    \/ open_database_close(Caller)
    \/ mine_clear_transactions(Caller)
    \/ storage_failure(Caller)
    \/ interrupt(Caller)
    \/ garbage_collect
    \/ call_get_blocks
    \/ call_get_transactions

FaultSpec == Init /\ [][FaultNext]_vars

\* --------------------------------------------- the wallet calls, one by one
\* database.add_wallet called directly, Wallet.sign and Wallet.verify called
\* by a caller that keeps the wallet, the message and the signature.
Messages == {message(t[1], t[2], t[3]) : t \in Transfers}

Alterations == {"none", "changed", "truncated"}

\* what a third party can make of a signature: the text as it is, a text
\* that still decodes but to other bytes, a text that is no base64 any more
alter(signature, how) ==
    IF how = "none" \/ signature = None THEN signature
    ELSE IF how = "changed" THEN b64encode([changed |-> signature.b64])
    ELSE [text |-> <<"truncated", signature.b64>>]

outcome(result) ==
    IF result = "True" THEN Bool(TRUE)
    ELSE IF result = "False" THEN Bool(FALSE)
    ELSE IF result = "None" THEN None
    ELSE Raised(result)

call_add_wallet(owner, password) ==
    LET public_key  == [public |-> nextKey + 1]
        private_key == [private |-> nextKey + 1, password |-> password]
        added       == add_wallet(WALLETS, owner, public_key, private_key)
    IN  /\ IF added.raised # ""
           THEN /\ Len(connections) < MaxLeaks
                /\ connections' = leak(Caller)
                /\ ret' = Returned("add_wallet", Raised(added.raised))
                /\ UNCHANGED <<WALLETS, nextKey>>
           ELSE /\ nextKey < MaxKeys
                /\ WALLETS' = added.table
                /\ nextKey' = nextKey + 1
                /\ ret' = Returned("add_wallet", None)
                /\ UNCHANGED connections
        /\ sqlite_master' = open_database(sqlite_master)
        /\ UNCHANGED <<BLOCKCHAIN, TRANSACTIONS, PENDING_TRANSACTIONS_FILE, now,
                       nextSalt, nextUuid, LOG, accepted, committed, pc, local>>

call_sign(owner, msg, password) ==
    LET wallet    == Wallet_load_from_database(WALLETS, owner)
        signature == Wallet_sign(wallet, msg, password, nextSalt + 1)
    IN  /\ wallet # None
        /\ IF signature = None
           THEN /\ LOG' = LOG_BADPWD
                /\ UNCHANGED nextSalt
           ELSE /\ nextSalt < MaxSubmits
                /\ nextSalt' = nextSalt + 1
                /\ UNCHANGED LOG
        /\ ret' = Returned("sign", signature)
        /\ local' = [local EXCEPT ![Caller] =
                        [wallet |-> wallet, message |-> msg,
                         password |-> password, signature |-> signature]]
        /\ sqlite_master' = open_database(sqlite_master)
        /\ UNCHANGED <<stores, now, nextKey, nextUuid, accepted, committed, pc,
                       connections>>

call_verify(owner, msg, how) ==
    LET wallet == Wallet_load_from_database(WALLETS, owner)
        result == Wallet_verify(wallet, msg, alter(local[Caller].signature, how))
    IN  /\ wallet # None
        /\ local[Caller] # None
        /\ ret' = Returned("verify", outcome(result))
        /\ LOG' = IF result = "True" THEN LOG_VERIFIED
                  ELSE IF result = "False" THEN LOG_INVALID ELSE LOG
        /\ sqlite_master' = open_database(sqlite_master)
        /\ UNCHANGED <<stores, env, accepted, committed, procs>>

WalletNext ==
    \/ \E name \in Owners, password \in Passwords : generate_wallet(name, password)
    \/ \E name \in Owners, password \in Passwords : call_add_wallet(name, password)
    \/ \E name \in Owners : RemoveWallet(name)
    \/ \E name \in Owners, msg \in Messages, password \in Passwords :
          call_sign(name, msg, password)
    \/ \E name \in Owners, msg \in Messages, how \in Alterations :
          call_verify(name, msg, how)
    \/ garbage_collect

WalletSpec == Init /\ [][WalletNext]_vars

\* ------------------------------------- the wallet table, called with names
\* The calls of the wallet table made with any name a caller can give.
raised_or(result, value) ==
    IF "raised" \in DOMAIN result THEN result ELSE value

\* a helper whose statement raised leaves its connection open
lookup(call, result, value) ==
    /\ ret' = Returned(call, raised_or(result, value))
    /\ IF "raised" \in DOMAIN result
       THEN /\ Len(connections) < MaxLeaks
            /\ connections' = leak(Caller)
       ELSE UNCHANGED connections
    /\ sqlite_master' = open_database(sqlite_master)
    /\ UNCHANGED <<stores, env, accepted, committed, pc, local>>

call_get_wallet(name) ==
    LET result == get_wallet(WALLETS, name)
    IN  /\ lookup("get_wallet", result, [result |-> result])
        /\ UNCHANGED LOG

call_load_from_database(name) ==
    LET result == Wallet_load_from_database(WALLETS, name)
    IN  /\ lookup("load_from_database", result, [result |-> result])
        /\ LOG' = IF result = None THEN LOG_NOWALLET ELSE LOG

call_get_users ==
    /\ ret' = Returned("get_users", [names |-> get_users(WALLETS)])
    /\ sqlite_master' = open_database(sqlite_master)
    /\ UNCHANGED <<stores, env, LOG, accepted, committed, procs>>

NameNext ==
    \/ \E name \in Names, password \in WalletPasswords :
          call_add_wallet(name, password)
    \/ \E name \in Names : RemoveWallet(name)
    \/ \E name \in Names : call_get_wallet(name)
    \/ \E name \in Names : call_load_from_database(name)
    \/ call_get_users
    \/ garbage_collect

NameSpec == Init /\ [][NameNext]_vars

\* ------------------------------------- the pending file edited from outside
\* The pending file is a plain JSON file: an entry of it can be rewritten
\* between two calls.  verify_pending_transactions is called on its own.
Tampers == {"signature changed", "signature truncated", "sender unknown"}

tampered(entry, how) ==
    IF how = "signature changed"
    THEN [entry EXCEPT !.signature = alter(entry.signature, "changed")]
    ELSE IF how = "signature truncated"
    THEN [entry EXCEPT !.signature = alter(entry.signature, "truncated")]
    ELSE [entry EXCEPT !.sender = "nobody"]

tamper(i, how) ==
    /\ i \in 1..Len(get_pending_transactions)
    /\ verify_transaction(get_pending_transactions[i]) = "True"
    /\ PENDING_TRANSACTIONS_FILE' =
          json_dump([get_pending_transactions EXCEPT ![i] = tampered(@, how)])
    /\ ret' = Returned("tamper", None)
    /\ UNCHANGED sqlite_master
    /\ UNCHANGED <<WALLETS, BLOCKCHAIN, TRANSACTIONS, env, LOG, accepted,
                   committed, procs>>

\* mutant: the file is opened for writing and comes out empty
file_after_read_truncated(file) == json_dump(<<>>)

\* get_pending_transactions opens the file with mode "r"
file_after_read(file) == file

call_verify_pending_transactions ==
    /\ ret' = Returned("verify_pending_transactions",
                       IF verify_raises(get_pending_transactions)
                       THEN Raised("TypeError")
                       ELSE [result |-> verify_pending_transactions])
    /\ LOG' = IF verify_raises(get_pending_transactions)
              THEN log_after_verify(before_raise(get_pending_transactions), LOG)
              ELSE log_after_verify(get_pending_transactions, LOG)
    /\ PENDING_TRANSACTIONS_FILE' = file_after_read(PENDING_TRANSACTIONS_FILE)
    /\ sqlite_master' = IF get_pending_transactions = <<>> THEN sqlite_master
                       ELSE open_database(sqlite_master)
    /\ UNCHANGED <<WALLETS, BLOCKCHAIN, TRANSACTIONS, env, accepted, committed,
                   procs>>

TamperNext ==
    \/ Next
    \/ \E i \in 1..MaxSubmits, how \in Tampers : tamper(i, how)
    \/ call_verify_pending_transactions

TamperSpec == Init /\ [][TamperNext]_vars

\* --------------------------------- the calls made with arguments of any kind
\* submit_transaction takes the receiver and the amount as they are given;
\* "C" is a name under which no wallet is ever generated
\* <<sender, receiver, amount>>
Offers == {<<"A", "B", 1>>, <<"A", "C", 1>>, <<"B", "A", 0>>, <<"B", "A", -1>>}

\* Mining().add_to_blockchain(): the list collected by __init__ is empty
Mining_transactions == <<>>

add_to_blockchain(transactions) ==
    \E timestamp \in now..MaxTime :
       LET name  == uuid4(nextUuid + 1)
           added == add_block(BLOCKCHAIN, TRANSACTIONS, name, transactions, timestamp)
       IN  /\ nextUuid < MaxUuids
           /\ now' = timestamp
           /\ nextUuid' = nextUuid + 1
           /\ BLOCKCHAIN' = added.BLOCKCHAIN
           /\ TRANSACTIONS' = added.TRANSACTIONS
           /\ PENDING_TRANSACTIONS_FILE' = clear_transactions
           /\ ret' = Returned("add_to_blockchain", None)
           /\ sqlite_master' = open_database(sqlite_master)
           /\ UNCHANGED <<WALLETS, nextKey, nextSalt, LOG, accepted, committed, procs>>

call_add_to_blockchain == add_to_blockchain(Mining_transactions)

ApiNext ==
    \/ \E name \in Owners, password \in WalletPasswords : generate_wallet(name, password)
    \/ \E t \in Offers, password \in WalletPasswords :
          submit_transaction(t[1], t[2], t[3], password)
    \/ mine
    \/ call_add_to_blockchain

ApiSpec == Init /\ [][ApiNext]_vars

\* ------------------------------- Wallet.generate, one database call a step
\* `if not database.is_unique_name(owner)`, then the key pair is generated
generate_is_unique_name(p, owner, password) ==
    /\ pc[p] = "idle"
    /\ IF ~is_unique_name(owner)
       THEN /\ LOG' = LOG_EXISTING
            /\ ret' = Returned("generate_wallet", Wallet_load_from_database(WALLETS, owner))
            /\ UNCHANGED <<nextKey, pc, local>>
       ELSE /\ nextKey < MaxKeys
            /\ nextKey' = nextKey + 1
            /\ pc' = [pc EXCEPT ![p] = "add_wallet"]
            /\ local' = [local EXCEPT ![p] =
                            [owner                 |-> owner,
                             encrypted_private_key |-> [private  |-> nextKey + 1,
                                                        password |-> password],
                             public_bytes          |-> [public |-> nextKey + 1]]]
            /\ UNCHANGED <<ret, LOG>>
    /\ sqlite_master' = open_database(sqlite_master)
    /\ UNCHANGED <<connections, stores, now, nextSalt, nextUuid, accepted, committed>>

\* database.add_wallet(owner, public_bytes, encrypted_private_key), then
\* `return cls(owner, encrypted_private_key)`
generate_add_wallet(p) ==
    LET added == add_wallet(WALLETS, local[p].owner, local[p].public_bytes,
                            local[p].encrypted_private_key)
    IN  /\ pc[p] = "add_wallet"
        /\ IF added.raised # ""
           THEN /\ Len(connections) < MaxLeaks
                /\ connections' = leak(p)
                /\ ret' = Returned("generate_wallet", Raised(added.raised))
                /\ UNCHANGED WALLETS
           ELSE /\ WALLETS' = added.table
                /\ ret' = Returned("generate_wallet",
                                  Wallet(added.table, local[p].owner,
                                         local[p].encrypted_private_key))
                /\ UNCHANGED connections
        /\ pc' = [pc EXCEPT ![p] = "idle"]
        /\ local' = [local EXCEPT ![p] = None]
        /\ sqlite_master' = open_database(sqlite_master)
        /\ UNCHANGED <<BLOCKCHAIN, TRANSACTIONS, PENDING_TRANSACTIONS_FILE, env,
                       LOG, accepted, committed>>

GenerateNext ==
    \/ \E p \in Procs, owner \in Owners, password \in Passwords :
          generate_is_unique_name(p, owner, password)
    \/ \E p \in Procs : generate_add_wallet(p)
    \/ garbage_collect

GenerateSpec == Init /\ [][GenerateNext]_vars

\* ------------------------------------------------------------ vocabulary
pending == get_pending_transactions

IsPrefix(s, t) == Len(s) <= Len(t) /\ SubSeq(t, 1, Len(s)) = s

SigningFails(sender, password) ==
    \/ \A r \in WALLETS : r.NAME # sender
    \/ \E r \in WALLETS : r.NAME = sender /\ r.PRIVATE_KEY.password # password

Verifies(t) == verify_transaction(t) = "True"

committed_signatures == {committed[i].signature : i \in 1..Len(committed)}

pending_signatures(file) ==
    {read_pending(file)[i].signature : i \in 1..Len(read_pending(file))}

RECURSIVE SumRows(_)
SumRows(rows) == IF rows = <<>> THEN 0 ELSE Head(rows).AMOUNT + SumRows(Tail(rows))

\* ------------------------------------------------------------------ C1
\* C1: a submit_transaction whose signing fails (the sender has no wallet, or
\* the password does not decrypt the sender's private key) returns False and
\* leaves the pending file exactly as it was.
C1_FailedSubmitLeavesQueue ==
    [][\A t \in Transfers, password \in Passwords :
          (submit_transaction(t[1], t[2], t[3], password)
             /\ SigningFails(t[1], password))
          => /\ ret' = Returned("submit_transaction", Bool(FALSE))
             /\ PENDING_TRANSACTIONS_FILE' = PENDING_TRANSACTIONS_FILE]_vars

C1_Witness ==
    /\ ret = Returned("submit_transaction", Bool(FALSE))
    /\ LOG = LOG_BADPWD
    /\ pending # <<>>

\* ------------------------------------------------------------------ C2
\* C2: a submit_transaction by an existing sender with the right password
\* returns True and appends exactly one record {sender, receiver, amount,
\* signature, submitted_time} at the end of the pending queue; the entries
\* already queued stay as they were, also when an identical entry is queued.
C2_SubmitAppendsOne ==
    [][\A t \in Transfers, password \in Passwords :
          (submit_transaction(t[1], t[2], t[3], password)
             /\ ~SigningFails(t[1], password))
          => LET after == read_pending(PENDING_TRANSACTIONS_FILE')
                 new   == after[Len(after)]
             IN  /\ ret' = Returned("submit_transaction", Bool(TRUE))
                 /\ Len(after) = Len(pending) + 1
                 /\ SubSeq(after, 1, Len(pending)) = pending
                 /\ new.sender = t[1]
                 /\ new.receiver = t[2]
                 /\ new.amount = t[3]
                 /\ new.submitted_time = now
                 /\ DOMAIN new = {"sender", "receiver", "amount", "signature",
                                  "submitted_time"}
                 /\ Verifies(new)]_vars

C2_Witness ==
    /\ ret = Returned("submit_transaction", Bool(TRUE))
    /\ Len(pending) = 2
    /\ pending[1].sender = pending[2].sender
    /\ pending[1].receiver = pending[2].receiver
    /\ pending[1].amount = pending[2].amount
    /\ pending[1].signature # pending[2].signature

\* ------------------------------------------------------------------ C3
\* C3: a mine() whose verified set is not empty appends exactly one block,
\* and every block of the ledger has transaction_count equal to the number
\* of transaction rows stored under its name and total_amount equal to the
\* sum of their amounts.
BlockTotalsMatchRows ==
    \A i \in 1..Len(BLOCKCHAIN) :
        LET rows == BlockChainDB_get_transactions(BLOCKCHAIN[i].BLOCK)
        IN  /\ BLOCKCHAIN[i].TRANS_COUNT = Len(rows)
            /\ BLOCKCHAIN[i].AMOUNT = SumRows(rows)

C3_MineAppendsOneConsistentBlock ==
    /\ []BlockTotalsMatchRows
    /\ [][(mine /\ \E i \in 1..Len(pending) : Verifies(pending[i]))
             => Len(BLOCKCHAIN') = Len(BLOCKCHAIN) + 1]_vars

C3_Witness ==
    /\ ret.call = "mine"
    /\ Len(BLOCKCHAIN) = 2
    /\ \E i \in 1..Len(BLOCKCHAIN) : BLOCKCHAIN[i].AMOUNT = 2

\* ------------------------------------------------------------------ C4
\* C4: after a mine() that committed a block the pending queue is empty,
\* entries that failed verification included, and the queue is emptied only
\* by a step that has committed a block.
C4_CommitThenClear ==
    [][/\ (mine /\ BLOCKCHAIN' # BLOCKCHAIN)
            => PENDING_TRANSACTIONS_FILE' = json_dump(<<>>)
       /\ (pending # <<>> /\ read_pending(PENDING_TRANSACTIONS_FILE') = <<>>)
            => Len(BLOCKCHAIN') = Len(BLOCKCHAIN) + 1]_vars

\* a mined block, an empty queue, and an accepted entry that was in no block
C4_Witness ==
    /\ ret.call = "mine"
    /\ BLOCKCHAIN # <<>>
    /\ PENDING_TRANSACTIONS_FILE = json_dump(<<>>)
    /\ \E s \in accepted : s \notin committed_signatures

\* ------------------------------------------------------------------ C5
\* C5: when no pending entry verifies (empty queue, or every entry fails),
\* mine() writes no block and no transaction row, leaves the last block hash
\* as it was and does not touch the pending queue.
C5_NothingToMineWritesNothing ==
    [][(mine /\ \A i \in 1..Len(pending) : ~Verifies(pending[i]))
          => /\ UNCHANGED <<BLOCKCHAIN, TRANSACTIONS, PENDING_TRANSACTIONS_FILE>>
             /\ BlockChainDB_get_last_block_hash(BLOCKCHAIN')
                  = BlockChainDB_get_last_block_hash(BLOCKCHAIN)]_vars

\* mine() has just found a non-empty queue in which nothing verifies
C5_Witness ==
    /\ ret.call = "mine"
    /\ LOG = LOG_NOTHING
    /\ pending # <<>>
    /\ BLOCKCHAIN # <<>>


\* ------------------------------------------------------------------ C6
\* C6 as stated: a mine() that follows a mine() with no submission in between
\* hands the nothing-to-mine outcome to its caller and adds no block.
NothingToMine == [tag |-> "nothing-to-mine"]

C6_SecondMineReportsToCaller ==
    [][(ret.call = "mine" /\ mine)
          => /\ ret'.value = NothingToMine
             /\ Len(BLOCKCHAIN') <= Len(BLOCKCHAIN)]_vars

\* C6 amended: a mine() that follows a mine() with no submission in between
\* logs the "No transactions found" warning, returns None as every mine()
\* does, and leaves the ledger as it was.
C6_SecondMineLogsNothingToMine ==
    [][(ret.call = "mine" /\ mine)
          => /\ LOG' = LOG_NOTHING
             /\ ret' = Returned("mine", None)
             /\ BLOCKCHAIN' = BLOCKCHAIN
             /\ TRANSACTIONS' = TRANSACTIONS]_vars

\* the last call was a mine() that found nothing, after a block was committed
C6_Witness ==
    /\ ret.call = "mine"
    /\ LOG = LOG_NOTHING
    /\ BLOCKCHAIN # <<>>
    /\ PENDING_TRANSACTIONS_FILE = json_dump(<<>>)

\* ------------------------------------------------------------------ C7
\* C7: when the operations run one at a time, every pending entry whose
\* signature verifies is committed to exactly one block: no entry is written
\* to the ledger twice, and an entry that verifies leaves the queue only by
\* being committed.
HistoryMatchesRows ==
    /\ Len(committed) = Len(TRANSACTIONS)
    /\ \A i \in 1..Len(committed) :
         /\ committed[i].block = TRANSACTIONS[i].BLOCK
         /\ committed[i].signature.b64.message
              = message(TRANSACTIONS[i].SENDER, TRANSACTIONS[i].RECEIVER,
                        TRANSACTIONS[i].AMOUNT)

NoDoubleCommit ==
    \A i, j \in 1..Len(committed) :
        i # j => committed[i].signature # committed[j].signature

C7_ExactlyOnce ==
    /\ [](HistoryMatchesRows /\ NoDoubleCommit)
    /\ [][\A i \in 1..Len(pending) :
            Verifies(pending[i])
            => \/ /\ i <= Len(read_pending(PENDING_TRANSACTIONS_FILE'))
                  /\ read_pending(PENDING_TRANSACTIONS_FILE')[i] = pending[i]
               \/ \E j \in 1..Len(committed') :
                     committed'[j].signature = pending[i].signature]_vars

C7_Witness ==
    /\ Len(BLOCKCHAIN) = 2
    /\ Cardinality(accepted) = 2
    /\ accepted = committed_signatures
    /\ pending = <<>>

\* ------------------------------------------------------------------ C10
\* C10: the ledger is append-only: no generate_wallet, submit_transaction,
\* mine or read changes or deletes a block row or a transaction row, so the
\* rows already written stay the leading rows of both tables.
C10_LedgerAppendOnly ==
    [][/\ IsPrefix(BLOCKCHAIN, BLOCKCHAIN')
       /\ IsPrefix(TRANSACTIONS, TRANSACTIONS')]_vars

C10_Witness ==
    /\ Len(BLOCKCHAIN) = 2
    /\ ret.call \in {"get_blocks", "get_transactions"}


\* ------------------------------------------------------------------ C11
\* C11: add_block writes the block row and its transaction rows as one unit:
\* whether the write completes, fails part-way or is interrupted, the tables
\* a reader sees never hold a transaction row whose block row is missing,
\* nor a block row with fewer transaction rows than its transaction count.
C11_NoPartialBlockVisible ==
    /\ \A k \in 1..Len(TRANSACTIONS) :
          \E i \in 1..Len(BLOCKCHAIN) : BLOCKCHAIN[i].BLOCK = TRANSACTIONS[k].BLOCK
    /\ \A i \in 1..Len(BLOCKCHAIN) :
          BLOCKCHAIN[i].TRANS_COUNT
            <= Len(BlockChainDB_get_transactions(BLOCKCHAIN[i].BLOCK))

\* a reader has queried the transactions after a commit failed part-way,
\* while the rows that were written are still with the abandoned connection
C11_Witness ==
    /\ ret.call = "get_transactions"
    /\ \E i \in 1..Len(connections) :
          connections[i].leaked /\ connections[i].TRANSACTIONS # <<>>

\* ------------------------------------------------------------------ C12
\* C12: a storage failure during the commit of a mining run reaches the
\* caller of mine() as an exception, changes no committed block row and no
\* committed transaction row, and the pending queue is not cleared: the
\* tables hold exactly the rows of the commits that completed, and every
\* accepted entry is still queued unless a completed commit holds it.
C12_StorageFailurePropagates ==
    /\ [](/\ HistoryMatchesRows
          /\ accepted \subseteq
               (pending_signatures(PENDING_TRANSACTIONS_FILE)
                  \cup committed_signatures))
    /\ [][storage_failure(Caller)
            => /\ ret' = Returned("mine", Raised("OperationalError"))
               /\ UNCHANGED <<BLOCKCHAIN, TRANSACTIONS,
                              PENDING_TRANSACTIONS_FILE>>]_vars

\* the commit of a second block has just failed: the first block is in the
\* ledger and the entry of the failed run is still queued
C12_Witness ==
    /\ ret = Returned("mine", Raised("OperationalError"))
    /\ Len(BLOCKCHAIN) = 1
    /\ pending # <<>>
    /\ idle

\* ------------------------------------------------------------------ C13
\* C13: every use of open_database releases the handle on every exit path,
\* the path on which the body raises included: when no call is running, no
\* connection is open.
C13_NoHandleLeftOpen == idle => connections = <<>>

\* ------------------------------------------------------------------ C14
\* C14: Wallet.generate is idempotent by owner name: a generate for an owner
\* who has a wallet does not raise, whatever the password, returns the stored
\* identity (the one the previous generate of that owner returned), and
\* leaves the wallet table, so the owner's two stored keys, as it was.
C14_GenerateIdempotentByName ==
    [][\A name \in Owners, password \in Passwords :
          (generate_wallet(name, password) /\ name \in get_wallet_holders)
          => /\ WALLETS' = WALLETS
             /\ "raised" \notin DOMAIN ret'.value
             /\ ret'.value.owner = name
             /\ ret'.value.encrypted_private_key = get_wallet(WALLETS, name).PRIVATE_KEY
             /\ ret'.value.public_key = get_wallet(WALLETS, name).PUBLIC_KEY
             /\ (ret.call = "generate_wallet" /\ ret.value.owner = name)
                   => ret'.value = ret.value]_vars

\* generate has just returned an existing wallet, one created under pwdB
C14_Witness ==
    /\ ret.call = "generate_wallet"
    /\ LOG = LOG_EXISTING
    /\ ret.value.encrypted_private_key.password = "pwdB"
    /\ Cardinality(WALLETS) = 2

\* ------------------------------------------------------------------ C15
\* C15: owner names are unique in the wallet table: add_wallet with a name
\* that is stored raises an integrity error and leaves the stored record and
\* the set of wallet holders as they were, so there is never more than one
\* wallet record of an owner.
C15_OwnerNamesUnique ==
    /\ [](\A r1 \in WALLETS, r2 \in WALLETS : r1.NAME = r2.NAME => r1 = r2)
    /\ [][\A name \in Owners, password \in Passwords :
            (call_add_wallet(name, password) /\ name \in get_users(WALLETS))
            => /\ ret' = Returned("add_wallet", Raised("IntegrityError"))
               /\ WALLETS' = WALLETS
               /\ get_users(WALLETS') = get_users(WALLETS)]_vars

\* add_wallet has just been refused for a stored name, another name is stored too
C15_Witness ==
    /\ ret = Returned("add_wallet", Raised("IntegrityError"))
    /\ Cardinality(WALLETS) = 2

\* ------------------------------------------------------------------ C16
\* C16: for a generated identity and a message, verify(message, s) is true
\* when s is what sign(message, passphrase) returned under the correct
\* passphrase, and is false when s is an altered signature or what sign
\* returned under a wrong passphrase.
SameIdentity(name, msg) ==
    /\ local[Caller] # None
    /\ local[Caller].wallet = Wallet_load_from_database(WALLETS, name)
    /\ local[Caller].message = msg

C16_SignVerifyRoundTrip ==
    [][\A name \in Owners, msg \in Messages, how \in Alterations :
          (call_verify(name, msg, how) /\ SameIdentity(name, msg))
          => ret'.value =
               Bool(/\ how = "none"
                    /\ local[Caller].password
                         = local[Caller].wallet.encrypted_private_key.password)]_vars

\* ------------------------------------------------------------------ C17
\* C17: Wallet.verify never raises for an invalid signature: whatever the
\* signature argument (malformed or undecodable text included), it returns
\* False, and it returns True only for a signature made for that message
\* with the owner's key.
C17_VerifyNeverRaises ==
    [][\A name \in Owners, msg \in Messages, how \in Alterations :
          call_verify(name, msg, how)
          => /\ ret'.value \in {Bool(TRUE), Bool(FALSE)}
             /\ ret'.value = Bool(TRUE)
                  => (how = "none" /\ SameIdentity(name, msg))]_vars

\* ------------------------------------------------------------------ C18
\* C18: verify_pending_transactions() returns exactly the pending entries
\* whose signature verifies, one VerifiedTransaction each, in queue order;
\* the entries that fail are left out of the result.
VerifyingEntries == {i \in 1..Len(pending) : Verifies(pending[i])}

Rank(i) == Cardinality({j \in VerifyingEntries : j <= i})

IsVerifiedSubset(value) ==
    /\ "result" \in DOMAIN value
    /\ Len(value.result) = Cardinality(VerifyingEntries)
    /\ \A i \in VerifyingEntries :
          value.result[Rank(i)] = [sender         |-> pending[i].sender,
                                   receiver       |-> pending[i].receiver,
                                   amount         |-> pending[i].amount,
                                   submitted_time |-> pending[i].submitted_time,
                                   verified_time  |-> now]

C18_VerifyPendingReturnsVerifying ==
    [][call_verify_pending_transactions => IsVerifiedSubset(ret'.value)]_vars

\* ------------------------------------------------------------------ C19
\* C19: verify_pending_transactions() is read-only and idempotent: it leaves
\* the pending queue as it was, and a call that follows another call with
\* nothing but the passing of time in between gives the same outcome, the
\* verified_time of the entries apart.
modulo_verified_time(value) ==
    IF "result" \in DOMAIN value
    THEN [i \in 1..Len(value.result) |->
             [sender         |-> value.result[i].sender,
              receiver       |-> value.result[i].receiver,
              amount         |-> value.result[i].amount,
              submitted_time |-> value.result[i].submitted_time]]
    ELSE value

C19_VerifyPendingIdempotent ==
    [][call_verify_pending_transactions
         => /\ PENDING_TRANSACTIONS_FILE' = PENDING_TRANSACTIONS_FILE
            /\ ret.call = "verify_pending_transactions"
                 => modulo_verified_time(ret'.value)
                      = modulo_verified_time(ret.value)]_vars

\* a call has returned one verified entry, stamped later than it was
\* submitted, out of a queue of two
C19_Witness ==
    /\ ret.call = "verify_pending_transactions"
    /\ "result" \in DOMAIN ret.value
    /\ Len(ret.value.result) = 1
    /\ ret.value.result[1].verified_time > ret.value.result[1].submitted_time
    /\ Len(pending) = 2

\* ------------------------------------------------------------------ C20
\* C20: one bad pending entry does not block the batch: when at least one
\* pending entry verifies, whatever the other entries are, mine() completes
\* without error and commits one block that holds exactly the entries that
\* verify.
C20_BadEntryDoesNotBlockBatch ==
    [][(mine /\ VerifyingEntries # {})
         => /\ ret' = Returned("mine", None)
            /\ Len(BLOCKCHAIN') = Len(BLOCKCHAIN) + 1
            /\ Len(TRANSACTIONS') = Len(TRANSACTIONS) + Cardinality(VerifyingEntries)
            /\ \A i \in VerifyingEntries :
                  LET row == TRANSACTIONS'[Len(TRANSACTIONS) + Rank(i)]
                  IN  /\ row.BLOCK = BLOCKCHAIN'[Len(BLOCKCHAIN')].BLOCK
                      /\ row.SENDER = pending[i].sender
                      /\ row.RECEIVER = pending[i].receiver
                      /\ row.AMOUNT = pending[i].amount]_vars

\* ------------------------------------------------------------------ C21
\* fetchone() of a SELECT of one column hands back the row, a 1-tuple
one_column_row(value) == [tag |-> "row", cols |-> <<value>>]

\* block ids grow strictly with the order in which the blocks were committed
BlockIdsGrow ==
    \A i, j \in 1..Len(BLOCKCHAIN) :
        i < j => BLOCKCHAIN[i].BLOCK_ID < BLOCKCHAIN[j].BLOCK_ID

\* C21 (as stated): get_last_block_hash() returns None when the ledger is
\* empty and otherwise the hash of the block with the greatest block id.
C21_ReturnsTheHash ==
    get_last_block_hash = IF BLOCKCHAIN = <<>> THEN None
                          ELSE BLOCKCHAIN[Len(BLOCKCHAIN)].BLOCK_HASH

\* C21 (amended): get_last_block_hash() returns None when the ledger is empty
\* and otherwise the one-column row holding the hash of the most recently
\* appended block, the block with the greatest block id; block ids grow
\* strictly with commit order, so after every mine() that committed a block
\* the row holds the hash of the block that run committed and differs from
\* the value before the run.
C21_LastBlockHashRow ==
    [][/\ BlockIdsGrow'
       /\ get_last_block_hash' =
             IF BLOCKCHAIN' = <<>> THEN None
             ELSE one_column_row(BLOCKCHAIN'[Len(BLOCKCHAIN')].BLOCK_HASH)
       /\ (mine /\ BLOCKCHAIN' # BLOCKCHAIN)
            => /\ \E i \in (Len(BLOCKCHAIN) + 1)..Len(BLOCKCHAIN') :
                     /\ BLOCKCHAIN'[i].BLOCK = uuid4(nextUuid + 1)
                     /\ get_last_block_hash'
                          = one_column_row(BLOCKCHAIN'[i].BLOCK_HASH)
               /\ get_last_block_hash' # get_last_block_hash]_vars

\* the call was answered with the hash row of the second of two blocks
C21_Witness ==
    /\ Len(BLOCKCHAIN) = 2
    /\ BLOCKCHAIN[1].BLOCK_HASH # BLOCKCHAIN[2].BLOCK_HASH
    /\ ret.call = "get_last_block_hash"
    /\ ret.value.result = one_column_row(BLOCKCHAIN[2].BLOCK_HASH)

\* ------------------------------------------------------------------ C22
\* the wallet row stored under a name
stored(name) == {r \in WALLETS : r.NAME = name}

\* C22: get_wallet(name) returns the stored (name, public key, private key)
\* record whose first field equals name when the owner exists and None when
\* no wallet has that name; Wallet.load_from_database then yields None
\* instead of a wallet.
C22_GetWalletByName ==
    [][\A name \in Names :
         /\ call_get_wallet(name)
              => /\ "result" \in DOMAIN ret'.value
                 /\ IF stored(name) = {} THEN ret'.value.result = None
                    ELSE ret'.value.result \in stored(name)
         /\ (call_load_from_database(name) /\ stored(name) = {})
              => ret'.value = [result |-> None]]_vars

\* ------------------------------------------------------------------ C23
\* C23: get_users() returns exactly the owner names that were added with
\* add_wallet and not since removed: add_wallet adds only the given name, and
\* remove_wallet(name) removes only that name and leaves every other wallet
\* in place.
C23_UsersAddedAndNotRemoved ==
    [][/\ \A name \in Names :
            /\ (\E password \in WalletPasswords : call_add_wallet(name, password))
                 => /\ get_users(WALLETS') = get_users(WALLETS) \cup {name}
                    /\ WALLETS \subseteq WALLETS'
            /\ RemoveWallet(name)
                 => /\ get_users(WALLETS') = get_users(WALLETS) \ {name}
                    /\ WALLETS' = WALLETS \ stored(name)
       /\ call_get_users => ret'.value.names = get_users(WALLETS)
       /\ (call_get_users \/ garbage_collect
             \/ \E name \in Names :
                   call_get_wallet(name) \/ call_load_from_database(name))
            => WALLETS' = WALLETS]_vars

\* ------------------------------------------------------------------ C24
\* C24: opening a fresh database with open_database creates the database and
\* its schema, and the list of tables it then contains is exactly the wallets
\* table (TABLE_WALLETS).
C24_OnlyTheWalletsTable ==
    [][(sqlite_master = NoFile /\ sqlite_master' # NoFile)
         => sqlite_master' = <<TABLE_WALLETS>>]_vars

\* ------------------------------------------------------------------ C25
ReadCalls == {"get_block", "get_blocks", "get_transactions", "get_last_block",
              "get_last_block_hash"}

\* C25: get_block, get_blocks, get_transactions, get_last_block and
\* get_last_block_hash are read-only projections: a step after which the
\* caller holds the result of one of them changes neither the wallet records,
\* nor the block rows, nor the transaction rows, nor the pending queue.
C25_ProjectionsAreReadOnly ==
    [][ret'.call \in ReadCalls
         => /\ WALLETS' = WALLETS
            /\ BLOCKCHAIN' = BLOCKCHAIN
            /\ TRANSACTIONS' = TRANSACTIONS
            /\ PENDING_TRANSACTIONS_FILE' = PENDING_TRANSACTIONS_FILE]_vars

\* the transactions of a block were returned while the ledger held the block
\* and the pending queue held an entry
C25_Witness ==
    /\ ret.call = "get_transactions"
    /\ ret.value.result # <<>>
    /\ BLOCKCHAIN # <<>>
    /\ WALLETS # {}
    /\ pending # <<>>

\* ------------------------------------------------------------------ C26
\* the positions of a mining run after Idle: SearchingNonce, Committing (the
\* block, then the clearing of the queue)
MiningStates == {"proof_of_work", "add_block", "clear_transactions"}

MiningOrder == {<<"idle", "proof_of_work">>,
                <<"proof_of_work", "add_block">>,
                <<"add_block", "clear_transactions">>,
                <<"clear_transactions", "idle">>}

\* C26: each mining run follows Idle -> CollectingTransactions ->
\* SearchingNonce -> Committing -> Idle: the nonce search starts only after a
\* non-empty verified set was collected, the block is committed only after
\* proof_of_work has returned a nonce, and the set committed is the one
\* collected at the start of that same run.
C26_MiningRunOrder ==
    [][/\ \A p \in Procs :
            /\ (pc'[p] # pc[p] /\ (pc[p] \in MiningStates \/ pc'[p] \in MiningStates))
                 => <<pc[p], pc'[p]>> \in MiningOrder
            /\ (pc[p] = "idle" /\ pc'[p] = "proof_of_work")
                 => /\ local'[p].transactions = verify_pending_transactions
                    /\ local'[p].transactions # <<>>
            /\ (pc[p] = "proof_of_work" /\ pc'[p] = "add_block")
                 => /\ local'[p].transactions = local[p].transactions
                    /\ local'[p].nonce \in Nat
       /\ (BLOCKCHAIN' # BLOCKCHAIN \/ TRANSACTIONS' # TRANSACTIONS)
            => \E p \in Procs :
                  /\ pc[p] = "add_block" /\ pc'[p] = "clear_transactions"
                  /\ local[p].nonce \in Nat
                  /\ Len(BLOCKCHAIN') = Len(BLOCKCHAIN) + 1
                  /\ TRANSACTIONS' =
                        add_transactions(TRANSACTIONS,
                                         BLOCKCHAIN'[Len(BLOCKCHAIN')].BLOCK,
                                         local[p].transactions)]_vars

\* a run is committing one collected entry while the queue already holds a
\* second one, submitted during the run
C26_Witness ==
    \E p \in Procs :
        /\ pc[p] = "clear_transactions"
        /\ Len(BLOCKCHAIN) = 1
        /\ Len(TRANSACTIONS) = 1
        /\ Len(pending) = 2

\* ------------------------------------------------------------------ C27
\* a process starts the nonce search
starts_search(p) == pc[p] = "proof_of_work" /\ pc'[p] = "add_block"

\* C27 (as stated): the proof-of-work seed of a mining run is the stringified
\* verified transactions followed by the hash of the block that is last in
\* the ledger when the search starts, or by the constant "00" when the ledger
\* is empty.
C27_SeedEndsWithTheHash ==
    [][\A p \in Procs :
         starts_search(p)
         => local'[p].message =
               [transactions |-> str_transactions(local[p].transactions),
                last |-> IF BLOCKCHAIN = <<>> THEN [genesis |-> "00"]
                         ELSE BLOCKCHAIN[Len(BLOCKCHAIN)].BLOCK_HASH]]_vars

\* C27 (amended): the proof-of-work seed of a mining run is the stringified
\* verified transactions followed by the text of the one-column row that
\* holds the hash of the block that is last in the ledger when the search
\* starts, or by the constant "00" when the ledger is empty; so the puzzle
\* for the N-th block depends on the hash of block N-1.
C27_SeedEndsWithTheHashRow ==
    [][\A p \in Procs :
         starts_search(p)
         => local'[p].message =
               [transactions |-> str_transactions(local[p].transactions),
                last |-> IF BLOCKCHAIN = <<>> THEN [genesis |-> "00"]
                         ELSE [tuple |-> <<BLOCKCHAIN[Len(BLOCKCHAIN)].BLOCK_HASH>>]]]_vars

\* the search for a second block has started from the hash of the first
C27_Witness ==
    \E p \in Procs :
        /\ pc[p] = "add_block"
        /\ Len(BLOCKCHAIN) = 1
        /\ local[p].message.last = [tuple |-> <<BLOCKCHAIN[1].BLOCK_HASH>>]

\* ------------------------------------------------------------------ C28
\* SHA256(seed + str(n)) begins with MINING_DIFFICULTY characters MINING_DIGIT
BeginsWithDigits(seed, n) ==
    LET digest == hexdigest([message |-> seed, nonce |-> n])
    IN  \A i \in 1..MINING_DIFFICULTY :
            hexchars(digest, MINING_DIFFICULTY)[i] = MINING_DIGIT

\* C28: proof_of_work starts at nonce 0, increments by one, and returns the
\* smallest non-negative nonce n for which SHA256(seed + str(n)) begins with
\* MINING_DIFFICULTY characters equal to MINING_DIGIT; every smaller nonce
\* fails the match, and the search ends on a match only.
C28_SmallestMatchingNonce ==
    [][\A p \in Procs :
         starts_search(p)
         => LET seed == local'[p].message
                n    == local'[p].nonce
            IN  /\ n \in Nat
                /\ BeginsWithDigits(seed, n)
                /\ \A m \in 0..(n - 1) : ~BeginsWithDigits(seed, m)]_vars

\* two searches have ended, on different seeds, after smaller nonces failed
C28_Witness ==
    /\ pc[1] = "add_block"
    /\ pc[2] = "add_block"
    /\ local[1].message # local[2].message
    /\ local[1].nonce > 0
    /\ local[2].nonce > local[1].nonce

\* ------------------------------------------------------------------ C29
\* a step of a mining run before Committing: the collection, the search, or
\* the end of a run that was cancelled there
BeforeCommitting(p) ==
    \/ pc[p] = "idle" /\ pc'[p] = "proof_of_work"
    \/ starts_search(p)
    \/ pc[p] \in {"proof_of_work", "add_block"} /\ pc'[p] = "idle"

\* C29: while a mining run is in CollectingTransactions or SearchingNonce it
\* modifies neither the ledger nor the pending queue, so a run cancelled or
\* interrupted before Committing leaves blocks, transactions, last_block_hash
\* and the pending queue exactly as they were.
C29_NothingWrittenBeforeCommitting ==
    [][\A p \in Procs :
         BeforeCommitting(p)
         => /\ BLOCKCHAIN' = BLOCKCHAIN
            /\ TRANSACTIONS' = TRANSACTIONS
            /\ get_last_block_hash' = get_last_block_hash
            /\ PENDING_TRANSACTIONS_FILE' = PENDING_TRANSACTIONS_FILE]_vars

\* a run that had collected an entry and found its nonce was cancelled: the
\* entry is still in the queue and the ledger is empty
C29_Witness ==
    /\ ret = Returned("mine", [tag |-> "killed"])
    /\ \A p \in Procs : pc[p] = "idle"
    /\ pending # <<>>
    /\ BLOCKCHAIN = <<>>

\* ------------------------------------------------------------------ C30
\* C30: the transactions committed in a block are the verified entries in
\* pending-queue insertion order, and each committed transaction carries the
\* sender, receiver, amount and submitted_time of the pending entry it came
\* from plus the verified_time stamped at verification; they are the rows
\* get_transactions selects for the block.
C30_CommittedAreVerifiedInOrder ==
    [][(mine /\ BLOCKCHAIN' # BLOCKCHAIN)
         => LET name == BLOCKCHAIN'[Len(BLOCKCHAIN')].BLOCK
                rows == SubSeq(TRANSACTIONS', Len(TRANSACTIONS) + 1,
                               Len(TRANSACTIONS'))
            IN  /\ Len(rows) = Cardinality(VerifyingEntries)
                /\ \A i \in VerifyingEntries :
                      rows[Rank(i)] = [BLOCK          |-> name,
                                       SENDER         |-> pending[i].sender,
                                       RECEIVER       |-> pending[i].receiver,
                                       AMOUNT         |-> pending[i].amount,
                                       SUBMITTED_TIME |-> pending[i].submitted_time,
                                       VERIFIED_TIME  |-> now]
                /\ SelectSeq(TRANSACTIONS', LAMBDA r : r.BLOCK = name) = rows]_vars

\* a block holds two transactions in the order of their submission, verified
\* after the first of them was submitted
C30_Witness ==
    /\ Len(BLOCKCHAIN) = 1
    /\ Len(TRANSACTIONS) = 2
    /\ TRANSACTIONS[1].SUBMITTED_TIME < TRANSACTIONS[2].SUBMITTED_TIME
    /\ TRANSACTIONS[1].SENDER # TRANSACTIONS[2].SENDER
    /\ TRANSACTIONS[1].VERIFIED_TIME > TRANSACTIONS[1].SUBMITTED_TIME

\* ------------------------------------------------------------------ C31
\* a process commits its block
commits_block(p) == pc[p] = "add_block" /\ pc'[p] = "clear_transactions"

BlockColumns == {"BLOCK_ID", "BLOCK", "TRANS_COUNT", "AMOUNT", "TIMESTAMP",
                 "BLOCK_HASH"}

TransactionColumns == {"BLOCK", "SENDER", "RECEIVER", "AMOUNT",
                       "SUBMITTED_TIME", "VERIFIED_TIME"}

\* C31: the hash stored for a committed block is a digest over the block
\* name, its serialized verified transactions and the commit timestamp only:
\* it is the same whatever nonce proof_of_work found and whatever the hash of
\* the previous block is, and the nonce is stored in no column.
C31_HashOverBlockContentsOnly ==
    [][\A p \in Procs :
         commits_block(p)
         => LET row == BLOCKCHAIN'[Len(BLOCKCHAIN')]
            IN  /\ local[p].nonce \in Nat
                /\ row.BLOCK_HASH =
                      hexdigest([name         |-> row.BLOCK,
                                 transactions |-> str_transactions(local[p].transactions),
                                 timestamp    |-> row.TIMESTAMP])
                /\ DOMAIN row = BlockColumns
                /\ \A i \in 1..Len(TRANSACTIONS') :
                      DOMAIN TRANSACTIONS'[i] = TransactionColumns]_vars

\* a second block was committed by a run whose search passed over nonces
C31_Witness ==
    \E p \in Procs :
        /\ pc[p] = "clear_transactions"
        /\ Len(BLOCKCHAIN) = 2
        /\ BLOCKCHAIN[1].BLOCK_HASH # BLOCKCHAIN[2].BLOCK_HASH

\* ------------------------------------------------------------------ C32
NoTwoBlocksShareAName ==
    \A i, j \in 1..Len(BLOCKCHAIN) :
        BLOCKCHAIN[i].BLOCK = BLOCKCHAIN[j].BLOCK => i = j

\* get_transactions(name) hands back the transactions committed with the
\* block of that name, as many as the history of commits holds for it
TransactionsOfOneBlock ==
    \A i \in 1..Len(BLOCKCHAIN) :
        LET name == BLOCKCHAIN[i].BLOCK
            of   == get_transactions(name)
        IN  /\ Len(of) = Cardinality({j \in 1..Len(committed) :
                                         committed[j].block = name})
            /\ Len(of) = BLOCKCHAIN[i].TRANS_COUNT
            /\ \A k \in 1..Len(of) : of[k].block_name = name

\* C32: block names are unique in the ledger: every mining run commits its
\* block under a fresh name, no two block rows share a name, and
\* get_transactions(name) returns exactly the transactions committed with
\* that one block.
C32_BlockNamesUnique ==
    /\ [](NoTwoBlocksShareAName /\ TransactionsOfOneBlock)
    /\ [][\A p \in Procs :
            commits_block(p)
            => /\ Len(BLOCKCHAIN') = Len(BLOCKCHAIN) + 1
               /\ \A i \in 1..Len(BLOCKCHAIN) :
                     BLOCKCHAIN[i].BLOCK # BLOCKCHAIN'[Len(BLOCKCHAIN')].BLOCK
               /\ \A i \in 1..Len(TRANSACTIONS) :
                     TRANSACTIONS[i].BLOCK # BLOCKCHAIN'[Len(BLOCKCHAIN')].BLOCK]_vars

\* two blocks of two runs that overlapped: each has its own name and row
C32_Witness ==
    /\ Len(BLOCKCHAIN) = 2
    /\ Len(TRANSACTIONS) >= 2
    /\ pc[1] = "clear_transactions"
    /\ pc[2] = "clear_transactions"
    /\ Len(get_transactions(BLOCKCHAIN[1].BLOCK)) >= 1
    /\ Len(get_transactions(BLOCKCHAIN[2].BLOCK)) >= 1

\* ------------------------------------------------------------------ C33
\* the entries of the pending file after a step that were not in it before
new_entries(before, after) ==
    {e \in {read_pending(after)[i] : i \in 1..Len(read_pending(after))} :
        \A i \in 1..Len(read_pending(before)) : read_pending(before)[i] # e}

\* a row of TRANSACTIONS holds the sender, receiver, amount and submission
\* time of a pending entry
row_of(row, entry) ==
    /\ row.SENDER = entry.sender
    /\ row.RECEIVER = entry.receiver
    /\ row.AMOUNT = entry.amount
    /\ row.SUBMITTED_TIME = entry.submitted_time

\* C33: every pending entry and every committed transaction names a sender
\* and a receiver that both had a wallet when the transaction was submitted:
\* an entry enters the queue only while both names hold a wallet, and a row
\* is committed only for an entry of the queue.
C33_PartiesHadWallets ==
    [][/\ \A e \in new_entries(PENDING_TRANSACTIONS_FILE, PENDING_TRANSACTIONS_FILE') :
            /\ ~is_unique_name(e.sender)
            /\ ~is_unique_name(e.receiver)
       /\ \A i \in (Len(TRANSACTIONS) + 1)..Len(TRANSACTIONS') :
            \E j \in 1..Len(pending) : row_of(TRANSACTIONS'[i], pending[j])]_vars

\* ------------------------------------------------------------------ C34
\* C34: every pending entry and every committed transaction has a positive
\* amount, so the total_amount of every block that holds transactions is
\* positive.
C34_AmountsPositive ==
    /\ \A i \in 1..Len(pending) : pending[i].amount > 0
    /\ \A i \in 1..Len(TRANSACTIONS) : TRANSACTIONS[i].AMOUNT > 0
    /\ \A i \in 1..Len(BLOCKCHAIN) :
          BLOCKCHAIN[i].TRANS_COUNT > 0 => BLOCKCHAIN[i].AMOUNT > 0

\* ------------------------------------------------------------------ C35
\* the block row appended by a step
block_written == BLOCKCHAIN'[Len(BLOCKCHAIN')]

\* C35: every block written by mine() contains at least one transaction: an
\* empty block is never written by mine(), and a step that writes an empty
\* block is a call of add_to_blockchain on a Mining object that has
\* collected nothing.
C35_MineWritesNoEmptyBlock ==
    [][Len(BLOCKCHAIN') > Len(BLOCKCHAIN) =>
         /\ mine => /\ block_written.TRANS_COUNT >= 1
                    /\ \E i \in (Len(TRANSACTIONS) + 1)..Len(TRANSACTIONS') :
                          TRANSACTIONS'[i].BLOCK = block_written.BLOCK
         /\ block_written.TRANS_COUNT = 0
              => /\ call_add_to_blockchain
                 /\ Mining_transactions = <<>>
                 /\ ~mine]_vars

\* mine() has written a block after add_to_blockchain wrote an empty one
C35_Witness ==
    /\ Len(BLOCKCHAIN) = 2
    /\ BLOCKCHAIN[1].TRANS_COUNT = 0
    /\ BLOCKCHAIN[2].TRANS_COUNT >= 1
    /\ ret.call = "mine"

\* ------------------------------------------------------------------ C36
\* C36: of two concurrent submit_transaction calls that both return True both
\* entries are in the queue afterwards: the rewrite of the file that ends
\* one call keeps every entry that is in the file, the entry of the other
\* call included, and adds its own.
C36_ConcurrentSubmitsKeepBoth ==
    [][\A p \in Procs :
         submit_write(p)
           => LET after == read_pending(PENDING_TRANSACTIONS_FILE')
              IN  /\ \A i \in 1..Len(pending) :
                        \E j \in 1..Len(after) : after[j] = pending[i]
                  /\ \E j \in 1..Len(after) :
                        after[j].signature = local[p].signature]_vars

\* ------------------------------------------------------------------ C37
\* C37: two concurrent Wallet.generate calls for the same new name leave
\* exactly one record stored and neither call fails: the call that comes to
\* its insert after the other's returns the existing identity.
C37_ConcurrentGenerateOneRecord ==
    /\ [](\A name \in Owners : Cardinality(stored(name)) <= 1)
    /\ [][\A p \in Procs :
            generate_add_wallet(p)
              => /\ Cardinality({r \in WALLETS' : r.NAME = local[p].owner}) = 1
                 /\ "raised" \notin DOMAIN ret'.value
                 /\ stored(local[p].owner) # {}
                      => ret'.value = Wallet_load_from_database(WALLETS, local[p].owner)]_vars

\* ------------------------------------------------------------------ C38
\* the sender of a pending entry holds no wallet (it was removed after the
\* entry was submitted)
sender_removed(t) == is_unique_name(t.sender)

\* the signatures a step adds to the history of committed entries
newly_committed ==
    {committed'[i].signature : i \in (Len(committed) + 1)..Len(committed')}

\* C38: a pending entry whose sender's wallet no longer exists at mining time
\* is treated as failing verification: mine() does not raise and commits no
\* row for it, and the other entries are still verified and mined.
C38_RemovedSenderEntryDropped ==
    [][((\E i \in 1..Len(pending) : sender_removed(pending[i])) /\ mine)
         => /\ ret' = Returned("mine", None)
            /\ \A i \in 1..Len(pending) :
                  /\ sender_removed(pending[i])
                       => pending[i].signature \notin newly_committed
                  /\ Verifies(pending[i])
                       => pending[i].signature \in newly_committed
            /\ \A i \in (Len(TRANSACTIONS) + 1)..Len(TRANSACTIONS') :
                  /\ ~is_unique_name(TRANSACTIONS'[i].SENDER)
                  /\ \E j \in 1..Len(pending) :
                        /\ Verifies(pending[j])
                        /\ row_of(TRANSACTIONS'[i], pending[j])
            /\ Len(TRANSACTIONS') - Len(TRANSACTIONS)
                 = Cardinality({i \in 1..Len(pending) : Verifies(pending[i])})]_vars

\* mine() has committed the entry of a sender who holds a wallet and dropped
\* the entry of a sender whose wallet was removed
C38_Witness ==
    /\ ret.call = "mine"
    /\ Len(BLOCKCHAIN) = 1
    /\ Len(TRANSACTIONS) = 1
    /\ \E s \in accepted :
          /\ s \notin committed_signatures
          /\ s \notin pending_signatures(PENDING_TRANSACTIONS_FILE)
          /\ is_unique_name(s.b64.message[1])

\* ------------------------------------------------------------------ C39
\* the i-th entry of the queue was submitted successfully and its signature
\* verifies
queued(i) ==
    /\ pending[i].signature \in accepted
    /\ Verifies(pending[i])

\* the entry signed s is a row of a block of the ledger
in_block(s) ==
    \E i \in 1..Len(committed) :
       /\ committed[i].signature = s
       /\ \E b \in 1..Len(BLOCKCHAIN) : BLOCKCHAIN[b].BLOCK = committed[i].block
       /\ \E r \in 1..Len(TRANSACTIONS) :
             /\ TRANSACTIONS[r].BLOCK = committed[i].block
             /\ TRANSACTIONS[r].SENDER = s.b64.message[1]
             /\ TRANSACTIONS[r].AMOUNT = s.b64.message[3]
             /\ TRANSACTIONS[r].RECEIVER = s.b64.message[5]

\* C39: under sequential operation, a transaction that was submitted
\* successfully and whose signature verifies is, once mine() is invoked
\* afterwards and its nonce search terminates, eventually in a committed
\* block, and the pending queue eventually becomes empty.  The signatures
\* accepted so far are never forgotten, so a state in which every one of
\* them is in a block has the one that was queued in a block.
C39_SubmittedEventuallyCommitted ==
    (\E i \in 1..Len(pending) : queued(i))
       ~> (pending = <<>> /\ \A s \in accepted : in_block(s))

\* an entry that was queued is in a block and the queue is empty
C39_Witness ==
    /\ pending = <<>>
    /\ PENDING_TRANSACTIONS_FILE # NoFile
    /\ \E s \in accepted : in_block(s)

\* ------------------------------------------------------------------ C8
\* C8: mining runs do not overlap, so no pending entry is committed by two
\* runs: an entry never appears in the ledger under two blocks.
C8_NoEntryCommittedByTwoRuns ==
    \A i, j \in 1..Len(committed) :
        committed[i].signature = committed[j].signature
        => committed[i].block = committed[j].block

\* ------------------------------------------------------------------ C9
\* C9: a transaction whose submit returned True is never lost to a mining
\* run: when a run clears the pending file, every accepted entry that was in
\* the file is in a committed block or is still in the file.
C9_ClearLosesNoAcceptedEntry ==
    [][\A p \in Procs :
         (pc[p] = "clear_transactions" /\ pc'[p] = "idle")
         => \A s \in accepted :
              s \in pending_signatures(PENDING_TRANSACTIONS_FILE)
              => \/ s \in pending_signatures(PENDING_TRANSACTIONS_FILE')
                 \/ \E j \in 1..Len(committed') : committed'[j].signature = s]_vars

====
